---- MODULE Spec2Model ----
(***************************************************************************)
(* Model of the resilience decorators of blingts4                          *)
(* (decorators/method/error.ts and decorators/method/cache.ts): the        *)
(* CircuitBreaker state machine, the Retry engine, the Timeout guard, the  *)
(* Fallback wrapper and the Cached / Memoize cache layer.  Time is a       *)
(* discrete clock (Date.now()); an asynchronous operation is a call that   *)
(* stays pending until its promise settles.  Each decorator has its own    *)
(* specification; the variables of the other decorators stay as they are.  *)
(***************************************************************************)
EXTENDS Integers, Sequences, FiniteSets, TLC

\* ------------------------------------------------------------------------
\* Bounds of the model
\* ------------------------------------------------------------------------
MaxThreshold == 2
MaxResetTimeout == 2
MaxCalls == 4
MaxTime == 3
MaxMaxRetries == 2
MaxBackoff == 2
MaxRetryCalls == 2
MaxRetryTime == 6
MaxMs == 2
MaxTimeoutCalls == 2
MaxTimeoutTime == 3
MaxExpiry == 2
MaxArg == 1
MaxCacheInvocations == 2
MaxCacheTime == 2
MaxMemoCalls == 2
MaxFallbackCalls == 3
MaxLimit == 2
MaxWindow == 2
MaxRateCalls == 3
MaxRateTime == 2
MaxDelay == 2
MaxDebounceCalls == 2
MaxDebounceTime == 3
MaxInterval == 2
MaxThrottleCalls == 3
MaxThrottleTime == 2
MaxShapeCalls == 2
MaxEffectCalls == 2

\* ------------------------------------------------------------------------
\* CircuitBreaker: state
\* ------------------------------------------------------------------------
VARIABLES
  failureThreshold,  \* options.failureThreshold
  resetTimeout,      \* options.resetTimeout
  failures,          \* circuitState.failures
  state,             \* circuitState.state
  lastFailureTime,   \* circuitState.lastFailureTime
  now,               \* Date.now()
  notified,          \* arguments of the onStateChange calls, in order
  trajectory,        \* values circuitState.state has taken, one per change
  invocations,       \* number of originalMethod.apply calls
  cbCalls,           \* the calls of the wrapped method, in call order
  last               \* the handler that ran last, with the state it found

cbVars == <<failureThreshold, resetTimeout, failures, state, lastFailureTime,
            notified, trajectory, invocations, cbCalls, last>>

\* ------------------------------------------------------------------------
\* Retry: state
\* ------------------------------------------------------------------------
VARIABLES
  maxRetries,        \* options.maxRetries
  strategy,          \* options.strategy
  backoff,           \* options.backoff
  onRetryGiven,      \* whether options.onRetry is supplied
  retryCalls         \* per top-level call: the closure of descriptor.value

retryVars == <<maxRetries, strategy, backoff, onRetryGiven, retryCalls>>

\* ------------------------------------------------------------------------
\* Retry observed with a clock: state
\* ------------------------------------------------------------------------
VARIABLES
  stamps             \* Date.now() at each originalMethod.apply of the call

\* ------------------------------------------------------------------------
\* Timeout: state
\* ------------------------------------------------------------------------
VARIABLES
  ms,                \* the decorator argument
  toCalls            \* the calls of the wrapped method, in call order

toVars == <<ms, toCalls>>

\* ------------------------------------------------------------------------
\* Cached: state
\* ------------------------------------------------------------------------
VARIABLES
  expiryTime,        \* options.expiryTime
  cache,             \* the module-level Map cache; an entry also carries the
                     \* time of its cache.set and whether a synchronous
                     \* result wrote it
  methodCacheKeys,   \* per decorated method: its Set methodCacheKeys
  cacheInvoked,      \* per decorated method: number of originalMethod.apply calls
  cachePending,      \* promises of originalMethod that have not settled
  invalidated,       \* keys removed by invalidate and not called since
  rejected,          \* per key, since its last call: "no" rejection, a
                     \* rejection and no entry of another invocation
                     \* ("clean"), or a rejection and such an entry ("stored")
  cacheLast          \* the handler that ran last, with the state it found

cacheVars == <<expiryTime, cache, methodCacheKeys, cacheInvoked, cachePending,
               invalidated, rejected, cacheLast>>

\* ------------------------------------------------------------------------
\* Memoize: state
\* ------------------------------------------------------------------------
VARIABLES
  memoized,          \* the Map memoized of the decorated method
  memoInvoked,       \* number of originalMethod.apply calls
  memoPending,       \* promises of originalMethod that have not settled
  memoLast,          \* what the last step delivered, and memoized before it
  memoStep           \* whether the memoized and the cached method have seen
                     \* the same calls and settlements in the same order

memoVars == <<memoized, memoInvoked, memoPending, memoLast, memoStep>>

\* ------------------------------------------------------------------------
\* Fallback: state
\* ------------------------------------------------------------------------
VARIABLES
  fbCalls            \* the calls of the wrapped method, in call order

fbVars == <<fbCalls>>

\* ------------------------------------------------------------------------
\* RateLimited: state
\* ------------------------------------------------------------------------
VARIABLES
  limit,             \* options.limit
  window,            \* options.window
  rateLimitState,    \* the Map rateLimitState: key -> recorded timestamps
  rateLog            \* per key, the calls made so far and what each received

rateVars == <<limit, window, rateLimitState, rateLog>>

\* ------------------------------------------------------------------------
\* DebounceSync / DebounceAsync: state
\* ------------------------------------------------------------------------
VARIABLES
  debounceDelay,     \* the decorator's argument delay
  debounceVariant,   \* "sync" (DebounceSync) or "async" (DebounceAsync)
  timeoutMap,        \* the Map timeoutMap: key -> timer (0 when absent)
  debounceCalls      \* the calls of the wrapped method, in call order

debounceVars == <<debounceDelay, debounceVariant, timeoutMap, debounceCalls>>

\* ------------------------------------------------------------------------
\* ThrottleSync / ThrottleAsync: state
\* ------------------------------------------------------------------------
VARIABLES
  interval,          \* the decorator's argument interval
  throttleVariant,   \* "sync" (ThrottleSync) or "async" (ThrottleAsync)
  lastCallMap,       \* the Map lastCallMap: key -> Date.now() of a call
  lastResultMap,     \* the Map lastResultMap: key -> call whose result it holds
  throttleCalls      \* the calls of the wrapped method, in call order

throttleVars == <<interval, throttleVariant, lastCallMap, lastResultMap,
                  throttleCalls>>

\* ------------------------------------------------------------------------
\* Call shape of the wrappers: state
\* ------------------------------------------------------------------------
VARIABLES
  shapeCalls         \* calls of wrapped methods and the shape of what each returned

shapeVars == <<shapeCalls>>

\* ------------------------------------------------------------------------
\* EffectAfter / EffectError: state
\* ------------------------------------------------------------------------
VARIABLES
  effectCalls        \* the calls of the wrapped method, in call order

effectVars == <<effectCalls>>

\* the decorators of the validation, timing and lifecycle files
restVars == <<rateVars, debounceVars, throttleVars, shapeVars, effectVars>>

vars == <<now, cbVars, retryVars, stamps, toVars, cacheVars, memoVars, fbVars,
          restVars>>

\* the variables a decorator leaves alone
notCB == <<retryVars, stamps, toVars, cacheVars, memoVars, fbVars, restVars>>
notRetry == <<cbVars, toVars, cacheVars, memoVars, fbVars, restVars>>
notTimeout == <<cbVars, retryVars, stamps, cacheVars, memoVars, fbVars, restVars>>
notCache == <<cbVars, retryVars, stamps, toVars, fbVars, restVars>>
notFallback == <<cbVars, retryVars, stamps, toVars, cacheVars, memoVars, restVars>>
earlierVars == <<cbVars, retryVars, stamps, toVars, cacheVars, memoVars, fbVars>>
laterVars == <<rateVars, debounceVars, throttleVars, effectVars>>
notRate == <<earlierVars, debounceVars, throttleVars, shapeVars, effectVars>>
notDebounce == <<earlierVars, rateVars, throttleVars, shapeVars, effectVars>>
notThrottle == <<earlierVars, rateVars, debounceVars, shapeVars, effectVars>>
notEffect == <<earlierVars, rateVars, debounceVars, throttleVars, shapeVars>>

\* the decorated methods of class Test and their arguments: A takes one
\* argument, B takes none
Ops == {"A", "B"}
Args == 1..MaxArg
ArgsOf(op) == IF op = "A" THEN Args ELSE {0}

\* `${this.constructor.name}:${methodName}:${JSON.stringify(args)}` for the
\* methods of one class: one key per method and argument
cacheKey(op, arg) == <<op, arg>>
Keys == UNION {{cacheKey(op, arg) : arg \in ArgsOf(op)} : op \in Ops}

\* expiryTime and CacheEntry.expiry when undefined
NoExpiry == -1
NoEntry == [present |-> FALSE, value |-> 0, expiry |-> NoExpiry, at |-> 0,
            sync |-> FALSE]

CacheLast0 == [ev |-> "init", op |-> "B", arg |-> 0, kind |-> "return",
               hit |-> FALSE, outcome |-> "none", ret |-> 0,
               preCache |-> [k \in Keys |-> NoEntry],
               preInvoked |-> 0, preEntry |-> NoEntry,
               preInvalidated |-> FALSE, preRejected |-> "no"]

\* memoized.has(key) false
NoMemo == [present |-> FALSE, value |-> 0]

MemoLast0 == [ev |-> "init", arg |-> 0, hit |-> FALSE, outcome |-> "none",
              ret |-> 0, pre |-> [a \in Args |-> NoMemo]]

\* no promise has settled under one decorator and not yet under the other
NoDelivery == [side |-> "none", n |-> 0, ok |-> TRUE]

MemoStep0 == [aligned |-> TRUE, ahead |-> NoDelivery]

\* the variables of a decorator the program does not use
TimeoutQuiet ==
  /\ ms = 0
  /\ toCalls = <<>>

CachedQuiet ==
  /\ cache = [k \in Keys |-> NoEntry]
  /\ methodCacheKeys = [o \in Ops |-> {}]
  /\ cacheInvoked = [o \in Ops |-> 0]
  /\ cachePending = {}
  /\ invalidated = {}
  /\ rejected = [k \in Keys |-> "no"]
  /\ cacheLast = CacheLast0

CacheQuiet ==
  /\ expiryTime = NoExpiry
  /\ CachedQuiet

MemoQuiet ==
  /\ memoized = [a \in Args |-> NoMemo]
  /\ memoInvoked = 0
  /\ memoPending = {}
  /\ memoLast = MemoLast0
  /\ memoStep = MemoStep0

FallbackQuiet == fbCalls = <<>>

\* `${this.constructor.name}:${methodName}` for the classes that inherit the
\* decorated method
RateKeys == {"X", "Y"}

RateQuiet ==
  /\ limit = 1
  /\ window = 0
  /\ rateLimitState = [k \in RateKeys |-> <<>>]
  /\ rateLog = [k \in RateKeys |-> <<>>]

\* `${this.constructor.name}.${methodName}` for the classes that inherit the
\* decorated method
TimerKeys == {"X"}

DebounceQuiet ==
  /\ debounceDelay = 0
  /\ debounceVariant = "sync"
  /\ timeoutMap = [k \in TimerKeys |-> 0]
  /\ debounceCalls = <<>>

ThrottleKeys == {"X", "Y"}

\* no entry in lastCallMap / lastResultMap
NoCall == 0

ThrottleQuiet ==
  /\ interval = 0
  /\ throttleVariant = "sync"
  /\ lastCallMap = [k \in ThrottleKeys |-> NoCall]
  /\ lastResultMap = [k \in ThrottleKeys |-> NoCall]
  /\ throttleCalls = <<>>

ShapeQuiet == shapeCalls = <<>>

EffectQuiet == effectCalls = <<>>

RestQuiet ==
  /\ RateQuiet
  /\ DebounceQuiet
  /\ ThrottleQuiet
  /\ ShapeQuiet
  /\ EffectQuiet

BreakerQuiet ==
  /\ failureThreshold = 1
  /\ resetTimeout = 0
  /\ failures = 0
  /\ state = "closed"
  /\ lastFailureTime = 0
  /\ notified = <<>>
  /\ trajectory = <<>>
  /\ invocations = 0
  /\ cbCalls = <<>>
  /\ last = [op |-> "init", id |-> 0, pre |-> [state |-> "closed", failures |-> 0,
             lastFailureTime |-> 0, invocations |-> 0, nlen |-> 0],
             mid |-> "closed"]

CircuitOpenError == "Circuit breaker is open"
OperationError == "operation error"

States == {"closed", "open", "half-open"}
Kinds == {"return", "throw", "async"}

\* the breaker as the record the helper functions work on
circuitState == [failures |-> failures, state |-> state,
                 lastFailureTime |-> lastFailureTime, notified |-> notified]

updateState_always(b, newState) ==
  [b EXCEPT !.state = newState, !.notified = Append(@, newState)]

updateState(b, newState) ==
  IF b.state # newState
    THEN [b EXCEPT !.state = newState, !.notified = Append(@, newState)]
    ELSE b

handleFailure_strict(b, t) ==
  LET b1 == [b EXCEPT !.failures = @ + 1, !.lastFailureTime = t]
  IN IF b1.failures > failureThreshold THEN updateState(b1, "open") ELSE b1

handleFailure_closedOnly(b, t) ==
  LET b1 == [b EXCEPT !.failures = @ + 1, !.lastFailureTime = t]
  IN IF b1.state = "closed" /\ b1.failures >= failureThreshold
       THEN updateState(b1, "open") ELSE b1

handleFailure(b, t) ==
  LET b1 == [b EXCEPT !.failures = @ + 1, !.lastFailureTime = t]
  IN IF b1.failures >= failureThreshold THEN updateState(b1, "open") ELSE b1

\* the check at the head of the wrapped method: admit tells whether the
\* call goes on to the operation
openGate_noElapsed(b, t) ==
  IF b.state = "open"
    THEN IF t >= resetTimeout
           THEN [b |-> updateState(b, "half-open"), admit |-> TRUE, trial |-> TRUE]
           ELSE [b |-> b, admit |-> FALSE, trial |-> FALSE]
    ELSE [b |-> b, admit |-> TRUE, trial |-> FALSE]

openGate_resetsCount(b, t) ==
  IF b.state = "open"
    THEN IF t - b.lastFailureTime >= resetTimeout
           THEN [b |-> [updateState(b, "half-open") EXCEPT !.failures = 0],
                 admit |-> TRUE, trial |-> TRUE]
           ELSE [b |-> b, admit |-> FALSE, trial |-> FALSE]
    ELSE [b |-> b, admit |-> TRUE, trial |-> FALSE]

openGate_countsRejection(b, t) ==
  IF b.state = "open"
    THEN IF t - b.lastFailureTime >= resetTimeout
           THEN [b |-> updateState(b, "half-open"), admit |-> TRUE, trial |-> TRUE]
           ELSE [b |-> [b EXCEPT !.lastFailureTime = t],
                 admit |-> FALSE, trial |-> FALSE]
    ELSE [b |-> b, admit |-> TRUE, trial |-> FALSE]

openGate(b, t) ==
  IF b.state = "open"
    THEN IF t - b.lastFailureTime >= resetTimeout
           THEN [b |-> updateState(b, "half-open"), admit |-> TRUE, trial |-> TRUE]
           ELSE [b |-> b, admit |-> FALSE, trial |-> FALSE]
    ELSE [b |-> b, admit |-> TRUE, trial |-> FALSE]

\* the success branches (promise fulfilled, or synchronous return)
handleSuccess_keepFailures(b) ==
  IF b.state = "half-open" THEN updateState(b, "closed") ELSE b

handleSuccess_resetsAlways(b) ==
  IF b.state = "half-open"
    THEN [updateState(b, "closed") EXCEPT !.failures = 0]
    ELSE [b EXCEPT !.failures = 0]

handleSuccess_closesAlways(b) ==
  [updateState(b, "closed") EXCEPT !.failures = 0]

handleSuccess(b) ==
  IF b.state = "half-open"
    THEN [updateState(b, "closed") EXCEPT !.failures = 0]
    ELSE b

\* the state changes between two consecutive values of circuitState.state
Changes(s0, s1) == IF s0 # s1 THEN <<s1>> ELSE <<>>

Snapshot == [state |-> state, failures |-> failures,
             lastFailureTime |-> lastFailureTime,
             invocations |-> invocations, nlen |-> Len(notified)]

\* the Retry variables of a program that decorates nothing with Retry
RetryQuiet ==
  /\ maxRetries = 0
  /\ strategy = "normal"
  /\ backoff = 1
  /\ onRetryGiven = FALSE
  /\ retryCalls = <<>>

CBInit ==
  /\ failureThreshold \in 1..MaxThreshold
  /\ resetTimeout \in 0..MaxResetTimeout
  /\ failures = 0
  /\ state = "closed"
  /\ lastFailureTime = 0
  /\ now = 0
  /\ notified = <<>>
  /\ trajectory = <<>>
  /\ invocations = 0
  /\ cbCalls = <<>>
  /\ last = [op |-> "init", id |-> 0, pre |-> [state |-> "closed", failures |-> 0,
             lastFailureTime |-> 0, invocations |-> 0, nlen |-> 0],
             mid |-> "closed"]
  /\ RetryQuiet
  /\ stamps = <<>>
  /\ TimeoutQuiet
  /\ CacheQuiet
  /\ MemoQuiet
  /\ FallbackQuiet
  /\ RestQuiet

SetBreaker(b) ==
  /\ failures' = b.failures
  /\ state' = b.state
  /\ lastFailureTime' = b.lastFailureTime
  /\ notified' = b.notified

\* one call of the wrapped method, up to the point where the promise
\* executor returns
cbWrapped(kind) ==
  /\ Len(cbCalls) < MaxCalls
  /\ LET g == openGate(circuitState, now)
         b2 == IF ~g.admit THEN g.b
               ELSE IF kind = "return" THEN handleSuccess(g.b)
               ELSE IF kind = "throw" THEN handleFailure(g.b, now)
               ELSE g.b
         status == IF ~g.admit THEN "rejected"
                   ELSE IF kind = "return" THEN "resolved"
                   ELSE IF kind = "throw" THEN "rejected"
                   ELSE "pending"
         error == IF ~g.admit THEN CircuitOpenError
                  ELSE IF kind = "throw" THEN OperationError
                  ELSE "none"
     IN /\ SetBreaker(b2)
        /\ trajectory' = trajectory \o Changes(state, g.b.state)
                                    \o Changes(g.b.state, b2.state)
        /\ invocations' = IF g.admit THEN invocations + 1 ELSE invocations
        /\ cbCalls' = Append(cbCalls, [kind |-> kind, admitted |-> g.admit,
                                      trial |-> g.trial, status |-> status,
                                      error |-> error])
        /\ last' = [op |-> "call", id |-> Len(cbCalls) + 1, pre |-> Snapshot,
                    mid |-> g.b.state]

CBCall(kind) ==
  /\ cbWrapped(kind)
  /\ UNCHANGED <<failureThreshold, resetTimeout, now, notCB>>

\* the promise of an admitted asynchronous call is fulfilled
CBResolve(i) ==
  /\ i \in 1..Len(cbCalls)
  /\ cbCalls[i].status = "pending"
  /\ LET b2 == handleSuccess(circuitState)
     IN /\ SetBreaker(b2)
        /\ trajectory' = trajectory \o Changes(state, b2.state)
  /\ cbCalls' = [cbCalls EXCEPT ![i].status = "resolved"]
  /\ last' = [op |-> "resolve", id |-> i, pre |-> Snapshot, mid |-> state]
  /\ UNCHANGED <<failureThreshold, resetTimeout, now, invocations, notCB>>

\* the promise of an admitted asynchronous call is rejected
CBReject(i) ==
  /\ i \in 1..Len(cbCalls)
  /\ cbCalls[i].status = "pending"
  /\ LET b2 == handleFailure(circuitState, now)
     IN /\ SetBreaker(b2)
        /\ trajectory' = trajectory \o Changes(state, b2.state)
  /\ cbCalls' = [cbCalls EXCEPT ![i].status = "rejected",
                                ![i].error = OperationError]
  /\ last' = [op |-> "reject", id |-> i, pre |-> Snapshot, mid |-> state]
  /\ UNCHANGED <<failureThreshold, resetTimeout, now, invocations, notCB>>

CBTick ==
  /\ now < MaxTime
  /\ now' = now + 1
  /\ last' = [last EXCEPT !.op = "tick"]
  /\ UNCHANGED <<failureThreshold, resetTimeout, failures, state,
                 lastFailureTime, notified, trajectory, invocations, cbCalls,
                 notCB>>

CBNext ==
  \/ \E kind \in Kinds : CBCall(kind)
  \/ \E i \in 1..MaxCalls : CBResolve(i)
  \/ \E i \in 1..MaxCalls : CBReject(i)
  \/ CBTick

Spec == CBInit /\ [][CBNext]_vars

\* ------------------------------------------------------------------------
\* Retry
\* ------------------------------------------------------------------------
RECURSIVE Pow2(_)
Pow2(n) == IF n <= 0 THEN 1 ELSE 2 * Pow2(n - 1)

\* the wait before the retry that follows the attempts-th attempt
delay_constant(attempts) == backoff

delay(attempts) ==
  IF strategy = "exponential" THEN backoff * Pow2(attempts - 1) ELSE backoff

\* the closure of one top-level call before it is made
NewCall == [phase |-> "idle", attempts |-> 0, log |-> <<>>, outcome |-> "none",
            result |-> <<>>, onRetryLog |-> <<>>, delays |-> <<>>, due |-> 0]

\* the value or error the k-th invocation made by call c produces
Outcome(c, k) == <<c, k>>

\* the try block ran to its return
retrySuccess_fallthrough(r, c, t) ==
  LET r1 == [r EXCEPT !.log[Len(r.log)] = "ok"]
  IN IF r1.attempts >= maxRetries + 1
       THEN [r1 EXCEPT !.phase = "done", !.outcome = "value",
                       !.result = Outcome(c, Len(r.log))]
       ELSE [r1 EXCEPT !.phase = "waiting", !.due = t + delay(r1.attempts),
                       !.delays = Append(@, delay(r1.attempts))]

retrySuccess(r, c, t) ==
  [r EXCEPT !.log[Len(r.log)] = "ok", !.phase = "done", !.outcome = "value",
            !.result = Outcome(c, Len(r.log))]

\* the catch block, entered with the error of the attempt that just failed
retryCatch_offByOne(r, c, error, t) ==
  LET r1 == [r EXCEPT !.log[Len(r.log)] = "err"]
  IN IF r1.attempts > maxRetries + 1
       THEN [r1 EXCEPT !.phase = "done", !.outcome = "error", !.result = error]
       ELSE [r1 EXCEPT !.phase = "waiting",
               !.onRetryLog = IF onRetryGiven
                                THEN Append(@, [error |-> error, attempt |-> r1.attempts])
                                ELSE @,
               !.delays = Append(@, delay(r1.attempts)),
               !.due = t + delay(r1.attempts)]

retryCatch_firstError(r, c, error, t) ==
  LET r1 == [r EXCEPT !.log[Len(r.log)] = "err"]
  IN IF r1.attempts >= maxRetries + 1
       THEN [r1 EXCEPT !.phase = "done", !.outcome = "error",
                       !.result = Outcome(c, 1)]
       ELSE [r1 EXCEPT !.phase = "waiting",
               !.onRetryLog = IF onRetryGiven
                                THEN Append(@, [error |-> error, attempt |-> r1.attempts])
                                ELSE @,
               !.delays = Append(@, delay(r1.attempts)),
               !.due = t + delay(r1.attempts)]

retryCatch_notifyFirst(r, c, error, t) ==
  LET r1 == [r EXCEPT !.log[Len(r.log)] = "err",
               !.onRetryLog = IF onRetryGiven
                                THEN Append(@, [error |-> error, attempt |-> r.attempts])
                                ELSE @]
  IN IF r1.attempts >= maxRetries + 1
       THEN [r1 EXCEPT !.phase = "done", !.outcome = "error", !.result = error]
       ELSE [r1 EXCEPT !.phase = "waiting",
               !.delays = Append(@, delay(r1.attempts)),
               !.due = t + delay(r1.attempts)]

retryCatch(r, c, error, t) ==
  LET r1 == [r EXCEPT !.log[Len(r.log)] = "err"]
  IN IF r1.attempts >= maxRetries + 1
       THEN [r1 EXCEPT !.phase = "done", !.outcome = "error", !.result = error]
       ELSE [r1 EXCEPT !.phase = "waiting",
               !.onRetryLog = IF onRetryGiven
                                THEN Append(@, [error |-> error, attempt |-> r1.attempts])
                                ELSE @,
               !.delays = Append(@, delay(r1.attempts)),
               !.due = t + delay(r1.attempts)]

\* execute(): one attempt, up to its first suspension
execute_sharedCounter(r, c, kind, t) ==
  LET k == Len(r.log) + 1
      shared == CHOOSE m \in {retryCalls[d].attempts : d \in DOMAIN retryCalls} :
                  \A d \in DOMAIN retryCalls : retryCalls[d].attempts <= m
      r1 == [r EXCEPT !.attempts = shared + 1, !.log = Append(@, "pending")]
  IN IF kind = "return" THEN retrySuccess(r1, c, t)
     ELSE IF kind = "throw" THEN retryCatch(r1, c, Outcome(c, k), t)
     ELSE [r1 EXCEPT !.phase = "awaiting"]

execute_overlapping(r, c, kind, t) ==
  LET k == Len(r.log) + 1
      r1 == [r EXCEPT !.attempts = @ + 1, !.log = Append(@, "pending")]
  IN IF kind = "return" THEN retrySuccess(r1, c, t)
     ELSE IF kind = "throw" THEN retryCatch(r1, c, Outcome(c, k), t)
     ELSE [r1 EXCEPT !.phase = IF r1.attempts >= maxRetries + 1 THEN "awaiting"
                               ELSE "waiting",
                     !.due = t]

execute(r, c, kind, t) ==
  LET k == Len(r.log) + 1
      r1 == [r EXCEPT !.attempts = @ + 1, !.log = Append(@, "pending")]
  IN IF kind = "return" THEN retrySuccess(r1, c, t)
     ELSE IF kind = "throw" THEN retryCatch(r1, c, Outcome(c, k), t)
     ELSE [r1 EXCEPT !.phase = "awaiting"]

RetryInit ==
  /\ maxRetries \in 0..MaxMaxRetries
  /\ strategy \in {"normal", "exponential"}
  /\ backoff \in 1..MaxBackoff
  /\ onRetryGiven \in BOOLEAN
  /\ retryCalls = [c \in 1..MaxRetryCalls |-> NewCall]
  /\ now = 0
  /\ failureThreshold = 1
  /\ resetTimeout = 0
  /\ failures = 0
  /\ state = "closed"
  /\ lastFailureTime = 0
  /\ notified = <<>>
  /\ trajectory = <<>>
  /\ invocations = 0
  /\ cbCalls = <<>>
  /\ last = [op |-> "init", id |-> 0, pre |-> [state |-> "closed", failures |-> 0,
             lastFailureTime |-> 0, invocations |-> 0, nlen |-> 0],
             mid |-> "closed"]
  /\ stamps = <<>>
  /\ TimeoutQuiet
  /\ CacheQuiet
  /\ MemoQuiet
  /\ FallbackQuiet
  /\ RestQuiet

\* a top-level call of the decorated method
retryWrapped(c, kind) ==
  /\ retryCalls[c].phase = "idle"
  /\ \A d \in 1..(c - 1) : retryCalls[d].phase # "idle"
  /\ retryCalls' = [retryCalls EXCEPT
                      ![c] = execute([@ EXCEPT !.attempts = 0], c, kind, now)]

RetryCall(c, kind) ==
  /\ retryWrapped(c, kind)
  /\ UNCHANGED <<maxRetries, strategy, backoff, onRetryGiven, now, stamps,
                 notRetry>>

\* the promise returned by the operation settles
RetrySettle(c, ok) ==
  /\ retryCalls[c].phase = "awaiting"
  /\ retryCalls' = [retryCalls EXCEPT
       ![c] = IF ok THEN retrySuccess(@, c, now)
              ELSE retryCatch(@, c, Outcome(c, Len(@.log)), now)]
  /\ UNCHANGED <<maxRetries, strategy, backoff, onRetryGiven, now, stamps,
                 notRetry>>

\* the setTimeout of the backoff wait fires and execute() runs again
RetryTimer(c, kind) ==
  /\ retryCalls[c].phase = "waiting"
  /\ now >= retryCalls[c].due
  /\ retryCalls' = [retryCalls EXCEPT ![c] = execute(@, c, kind, now)]
  /\ UNCHANGED <<maxRetries, strategy, backoff, onRetryGiven, now, stamps,
                 notRetry>>

RetryTick ==
  /\ now < MaxRetryTime
  /\ now' = now + 1
  /\ UNCHANGED <<retryVars, stamps, notRetry>>

RetryNext ==
  \/ \E c \in 1..MaxRetryCalls, kind \in Kinds : RetryCall(c, kind)
  \/ \E c \in 1..MaxRetryCalls, ok \in BOOLEAN : RetrySettle(c, ok)
  \/ \E c \in 1..MaxRetryCalls, kind \in Kinds : RetryTimer(c, kind)
  \/ RetryTick

SpecRetry == RetryInit /\ [][RetryNext]_vars

\* ------------------------------------------------------------------------
\* Retry observed with a clock: one top-level call, with Date.now() taken
\* at each invocation of the operation
\* ------------------------------------------------------------------------
BackoffCall(kind) ==
  /\ retryCalls[1].phase = "idle"
  /\ retryCalls' = [retryCalls EXCEPT
                      ![1] = execute([@ EXCEPT !.attempts = 0], 1, kind, now)]
  /\ stamps' = <<now>>
  /\ UNCHANGED <<maxRetries, strategy, backoff, onRetryGiven, now, notRetry>>

BackoffTimer(kind) ==
  /\ retryCalls[1].phase = "waiting"
  /\ now >= retryCalls[1].due
  /\ retryCalls' = [retryCalls EXCEPT ![1] = execute(@, 1, kind, now)]
  /\ stamps' = Append(stamps, now)
  /\ UNCHANGED <<maxRetries, strategy, backoff, onRetryGiven, now, notRetry>>

BackoffNext ==
  \/ \E kind \in Kinds : BackoffCall(kind)
  \/ \E ok \in BOOLEAN : RetrySettle(1, ok)
  \/ \E kind \in Kinds : BackoffTimer(kind)
  \/ RetryTick

SpecBackoff == RetryInit /\ [][BackoffNext]_vars

\* ------------------------------------------------------------------------
\* Timeout
\* ------------------------------------------------------------------------
methodName == "method"

\* `${methodName} timed out after ${ms}ms`
TimeoutMessage(name, m) == <<name, "timed out after", m, "ms">>

\* Promise.race: the first promise to settle settles the returned promise
raceSettle(r, outcome, message) ==
  IF r.outcome = "pending"
    THEN [r EXCEPT !.outcome = outcome, !.message = message, !.settles = @ + 1]
    ELSE r

\* methodPromise settles
methodSettle_overwrites(r, ok) ==
  [r EXCEPT !.opStatus = IF ok THEN "resolved" ELSE "rejected",
            !.order = Append(@, "op"),
            !.outcome = IF ok THEN "value" ELSE "error",
            !.message = <<>>,
            !.settles = @ + 1]

methodSettle(r, ok) ==
  raceSettle([r EXCEPT !.opStatus = IF ok THEN "resolved" ELSE "rejected",
                       !.order = Append(@, "op")],
             IF ok THEN "value" ELSE "error", <<>>)

\* the setTimeout callback rejects timeoutPromise
timeoutFire_overwrites(r) ==
  [r EXCEPT !.timer = "fired", !.order = Append(@, "timer"),
            !.outcome = "timeout", !.message = TimeoutMessage(methodName, ms),
            !.settles = @ + 1]

timeoutFire(r) ==
  raceSettle([r EXCEPT !.timer = "fired", !.order = Append(@, "timer")],
             "timeout", TimeoutMessage(methodName, ms))

TimeoutInit ==
  /\ ms \in 0..MaxMs
  /\ toCalls = <<>>
  /\ now = 0
  /\ BreakerQuiet
  /\ RetryQuiet
  /\ stamps = <<>>
  /\ CacheQuiet
  /\ MemoQuiet
  /\ FallbackQuiet
  /\ RestQuiet

\* one call of the wrapped method: the operation is invoked and, unless it
\* throws, the timer is armed and the two promises are raced
timeoutWrapped(kind) ==
  /\ Len(toCalls) < MaxTimeoutCalls
  /\ LET r0 == [kind |-> kind, opStatus |-> "pending", timer |-> "armed",
                due |-> now + ms, order |-> <<>>, outcome |-> "pending",
                message |-> <<>>, settles |-> 0]
         r == IF kind = "throw"
                THEN [r0 EXCEPT !.opStatus = "threw", !.timer = "none",
                                !.outcome = "thrown", !.settles = 1]
              ELSE IF kind = "return" THEN methodSettle(r0, TRUE)
              ELSE r0
     IN toCalls' = Append(toCalls, r)

TOCall(kind) ==
  /\ timeoutWrapped(kind)
  /\ UNCHANGED <<ms, now, notTimeout>>

\* the promise returned by the operation settles
TOSettle(i, ok) ==
  /\ i \in 1..Len(toCalls)
  /\ toCalls[i].opStatus = "pending"
  /\ toCalls' = [toCalls EXCEPT ![i] = methodSettle(@, ok)]
  /\ UNCHANGED <<ms, now, notTimeout>>

\* the timer of call i fires
TOTimer(i) ==
  /\ i \in 1..Len(toCalls)
  /\ toCalls[i].timer = "armed"
  /\ now >= toCalls[i].due
  /\ toCalls' = [toCalls EXCEPT ![i] = timeoutFire(@)]
  /\ UNCHANGED <<ms, now, notTimeout>>

TOTick ==
  /\ now < MaxTimeoutTime
  /\ now' = now + 1
  /\ UNCHANGED <<toVars, notTimeout>>

TimeoutNext ==
  \/ \E kind \in Kinds : TOCall(kind)
  \/ \E i \in 1..MaxTimeoutCalls, ok \in BOOLEAN : TOSettle(i, ok)
  \/ \E i \in 1..MaxTimeoutCalls : TOTimer(i)
  \/ TOTick

SpecTimeout == TimeoutInit /\ [][TimeoutNext]_vars

\* ------------------------------------------------------------------------
\* Cached
\* ------------------------------------------------------------------------
\* expiry: expiryTime ? Date.now() + expiryTime : undefined
entryExpiry(t) ==
  IF expiryTime # NoExpiry /\ expiryTime # 0 THEN t + expiryTime ELSE NoExpiry

\* cache.set(cacheKey, { value, expiry })
cacheSet(c, k, value, t, sync) ==
  [c EXCEPT ![k] = [present |-> TRUE, value |-> value, expiry |-> entryExpiry(t),
                    at |-> t, sync |-> sync]]

\* cached && (!cached.expiry || cached.expiry > Date.now())
live_noUndefined(e, t) == e.present /\ e.expiry > t

live(e, t) ==
  e.present /\ (e.expiry = NoExpiry \/ e.expiry = 0 \/ e.expiry > t)

\* the lookup at the head of the wrapped method: a live entry is a hit, an
\* expired one is deleted
cacheLookup(c, k, t) ==
  IF live(c[k], t)
    THEN [hit |-> TRUE, value |-> c[k].value, cache |-> c]
    ELSE [hit |-> FALSE, value |-> 0, cache |-> [c EXCEPT ![k] = NoEntry]]

\* the then-callback of an asynchronous result; a rejection runs no callback
asyncStore_always(c, k, ok, value, t) ==
  cacheSet(c, k, IF ok THEN value ELSE 0, t, FALSE)

asyncStore(c, k, ok, value, t) ==
  IF ok THEN cacheSet(c, k, value, t, FALSE) ELSE c

\* prototype[invalidateMethodName]: delete every key of methodCacheKeys
invalidateKeys(c, keys) ==
  [k \in Keys |-> IF k \in keys THEN NoEntry ELSE c[k]]

TotalInvoked == cacheInvoked["A"] + cacheInvoked["B"]

CacheInit ==
  /\ expiryTime \in {NoExpiry} \cup (0..MaxExpiry)
  /\ CachedQuiet
  /\ now = 0
  /\ BreakerQuiet
  /\ RetryQuiet
  /\ stamps = <<>>
  /\ TimeoutQuiet
  /\ MemoQuiet
  /\ FallbackQuiet
  /\ RestQuiet

\* the body of the wrapped method; the operation returns the number of
\* times it has been invoked
cachedBody(op, arg, kind) ==
  LET k == cacheKey(op, arg)
      look == cacheLookup(cache, k, now)
      n == cacheInvoked[op] + 1
  IN /\ methodCacheKeys' = [methodCacheKeys EXCEPT ![op] = @ \cup {k}]
     /\ invalidated' = invalidated \ {k}
     /\ rejected' = [rejected EXCEPT ![k] = "no"]
     /\ IF look.hit
          THEN /\ cache' = look.cache
               /\ UNCHANGED <<cacheInvoked, cachePending>>
          ELSE /\ cacheInvoked' = [cacheInvoked EXCEPT ![op] = n]
               /\ cache' = IF kind = "return"
                             THEN cacheSet(look.cache, k, n, now, TRUE)
                             ELSE look.cache
               /\ cachePending' = IF kind = "async"
                                    THEN cachePending \cup
                                           {[op |-> op, arg |-> arg, value |-> n]}
                                    ELSE cachePending
     /\ cacheLast' = [ev |-> "call", op |-> op, arg |-> arg, kind |-> kind,
                      hit |-> look.hit,
                      outcome |-> IF look.hit \/ kind = "return" THEN "value"
                                  ELSE IF kind = "throw" THEN "thrown"
                                  ELSE "pending",
                      ret |-> IF look.hit THEN look.value
                              ELSE IF kind = "return" THEN n ELSE 0,
                      preCache |-> CacheLast0.preCache,
                      preInvoked |-> cacheInvoked[op], preEntry |-> cache[k],
                      preInvalidated |-> k \in invalidated,
                      preRejected |-> rejected[k]]
     /\ UNCHANGED <<expiryTime, now>>

\* one call of the wrapped method (the operation's kind matters on a miss
\* only)
CachedCall(op, arg, kind) ==
  LET look == cacheLookup(cache, cacheKey(op, arg), now)
  IN /\ look.hit \/ TotalInvoked < MaxCacheInvocations
     /\ look.hit => kind = "return"
     /\ cachedBody(op, arg, kind)
     /\ UNCHANGED <<memoVars, notCache>>

\* the callbacks of the promise of invocation p
cachedThen(p, ok) ==
  LET k == cacheKey(p.op, p.arg)
  IN /\ cachePending' = cachePending \ {p}
     /\ cache' = asyncStore(cache, k, ok, p.value, now)
     /\ rejected' = [rejected EXCEPT ![k] =
                       IF ok THEN (IF @ = "no" THEN "no" ELSE "stored")
                       ELSE IF @ = "stored" \/ live(cache[k], now)
                              THEN "stored" ELSE "clean"]
     /\ cacheLast' = [ev |-> IF ok THEN "resolve" ELSE "reject",
                      op |-> p.op, arg |-> p.arg, kind |-> "async", hit |-> FALSE,
                      outcome |-> IF ok THEN "value" ELSE "error",
                      ret |-> IF ok THEN p.value ELSE 0,
                      preCache |-> CacheLast0.preCache,
                      preInvoked |-> cacheInvoked[p.op], preEntry |-> cache[k],
                      preInvalidated |-> k \in invalidated,
                      preRejected |-> rejected[k]]
     /\ UNCHANGED <<expiryTime, now, methodCacheKeys, cacheInvoked, invalidated>>

\* the promise of a pending invocation settles
CachedSettle(p, ok) ==
  /\ p \in cachePending
  /\ cachedThen(p, ok)
  /\ UNCHANGED <<memoVars, notCache>>

\* a call of the invalidate method of one decorated method
Invalidate(op) ==
  /\ cache' = invalidateKeys(cache, methodCacheKeys[op])
  /\ methodCacheKeys' = [methodCacheKeys EXCEPT ![op] = {}]
  /\ invalidated' = invalidated \cup
                      {k \in Keys : k[1] = op /\ cache[k].present}
  /\ cacheLast' = [ev |-> "invalidate", op |-> op, arg |-> 0, kind |-> "return",
                   hit |-> FALSE, outcome |-> "none", ret |-> 0,
                   preCache |-> cache, preInvoked |-> cacheInvoked[op],
                   preEntry |-> NoEntry, preInvalidated |-> FALSE,
                   preRejected |-> "no"]
  /\ UNCHANGED <<expiryTime, now, cacheInvoked, cachePending, rejected, memoVars,
                 notCache>>

CacheTick ==
  /\ now < MaxCacheTime
  /\ now' = now + 1
  /\ cacheLast' = [cacheLast EXCEPT !.ev = "tick"]
  /\ UNCHANGED <<expiryTime, cache, methodCacheKeys, cacheInvoked, cachePending,
                 invalidated, rejected, memoVars, notCache>>

PendingSpace == [op : Ops, arg : Args \cup {0}, value : 1..MaxCacheInvocations]

CacheNext ==
  \/ \E op \in Ops, kind \in Kinds :
       \E arg \in ArgsOf(op) : CachedCall(op, arg, kind)
  \/ \E p \in PendingSpace, ok \in BOOLEAN : CachedSettle(p, ok)
  \/ \E op \in Ops : Invalidate(op)
  \/ CacheTick

SpecCache == CacheInit /\ [][CacheNext]_vars

\* ------------------------------------------------------------------------
\* Memoize, next to Cached() without expiryTime on the same method
\* ------------------------------------------------------------------------
\* memoized.has(key) / memoized.get(key)
memoLookup(m, a) ==
  IF m[a].present THEN [hit |-> TRUE, value |-> m[a].value]
  ELSE [hit |-> FALSE, value |-> 0]

\* memoized.set(key, value)
memoSet(m, a, value) == [m EXCEPT ![a] = [present |-> TRUE, value |-> value]]

\* the then-callback of an asynchronous result; a rejection runs no callback
memoStore_always(m, a, ok, value) == memoSet(m, a, IF ok THEN value ELSE 0)

memoStore(m, a, ok, value) == IF ok THEN memoSet(m, a, value) ELSE m

MemoInit ==
  /\ MemoQuiet
  /\ CacheQuiet
  /\ now = 0
  /\ BreakerQuiet
  /\ RetryQuiet
  /\ stamps = <<>>
  /\ TimeoutQuiet
  /\ FallbackQuiet
  /\ RestQuiet

\* the body of the method wrapped by Memoize; the operation returns the
\* number of times it has been invoked
memoBody(arg, kind) ==
  LET look == memoLookup(memoized, arg)
      n == memoInvoked + 1
  IN /\ IF look.hit
          THEN UNCHANGED <<memoized, memoInvoked, memoPending>>
          ELSE /\ memoInvoked' = n
               /\ memoized' = IF kind = "return" THEN memoSet(memoized, arg, n)
                               ELSE memoized
               /\ memoPending' = IF kind = "async"
                                   THEN memoPending \cup {[arg |-> arg, value |-> n]}
                                   ELSE memoPending
     /\ memoLast' = [ev |-> "call", arg |-> arg, hit |-> look.hit,
                     outcome |-> IF look.hit \/ kind = "return" THEN "value"
                                 ELSE IF kind = "throw" THEN "thrown"
                                 ELSE "pending",
                     ret |-> IF look.hit THEN look.value
                             ELSE IF kind = "return" THEN n ELSE 0,
                     pre |-> memoized]

\* the callbacks of the promise of invocation p
memoThen(p, ok) ==
  /\ memoPending' = memoPending \ {p}
  /\ memoized' = memoStore(memoized, p.arg, ok, p.value)
  /\ memoLast' = [ev |-> IF ok THEN "resolve" ELSE "reject", arg |-> p.arg,
                  hit |-> FALSE, outcome |-> IF ok THEN "value" ELSE "error",
                  ret |-> IF ok THEN p.value ELSE 0, pre |-> memoized]
  /\ UNCHANGED memoInvoked

\* the promises of the two methods are distinct: their reactions run one
\* after the other, and a call can come in between. The two methods stay in
\* step while every settlement under one decorator is followed at once by
\* the settlement of the same invocation, with the same outcome, under the
\* other.
stepAfterCall(st) ==
  IF st.ahead.side # "none" THEN [aligned |-> FALSE, ahead |-> NoDelivery]
  ELSE st

stepAfterSettle(st, side, n, ok) ==
  IF ~st.aligned THEN st
  ELSE IF st.ahead.side = "none"
    THEN [st EXCEPT !.ahead = [side |-> side, n |-> n, ok |-> ok]]
  ELSE IF st.ahead.side # side /\ st.ahead.n = n /\ st.ahead.ok = ok
    THEN [st EXCEPT !.ahead = NoDelivery]
  ELSE [aligned |-> FALSE, ahead |-> NoDelivery]

\* the same call made on the memoized method and on the cached method A
MemoCall(arg, kind) ==
  LET mhit == memoLookup(memoized, arg).hit
      chit == cacheLookup(cache, cacheKey("A", arg), now).hit
  IN /\ (mhit /\ chit) \/ (memoInvoked < MaxMemoCalls /\ cacheInvoked["A"] < MaxMemoCalls)
     /\ (mhit /\ chit) => kind = "return"
     /\ memoBody(arg, kind)
     /\ cachedBody("A", arg, kind)
     /\ memoStep' = stepAfterCall(memoStep)
     /\ UNCHANGED notCache

\* the promise of invocation p of the memoized method settles
MemoSettle(p, ok) ==
  /\ p \in memoPending
  /\ memoThen(p, ok)
  /\ memoStep' = stepAfterSettle(memoStep, "memo", p.value, ok)
  /\ UNCHANGED <<cacheVars, now, notCache>>

\* the promise of invocation p of the cached method A settles
MemoCachedSettle(p, ok) ==
  /\ p \in cachePending
  /\ p.op = "A"
  /\ cachedThen(p, ok)
  /\ memoStep' = stepAfterSettle(memoStep, "cache", p.value, ok)
  /\ UNCHANGED <<memoized, memoInvoked, memoPending, memoLast, notCache>>

MemoTick ==
  /\ now < MaxCacheTime
  /\ now' = now + 1
  /\ cacheLast' = [cacheLast EXCEPT !.ev = "tick"]
  /\ memoLast' = [memoLast EXCEPT !.ev = "tick"]
  /\ UNCHANGED <<expiryTime, cache, methodCacheKeys, cacheInvoked, cachePending,
                 invalidated, rejected, memoized, memoInvoked, memoPending,
                 memoStep,
                 notCache>>

MemoPendingSpace == [arg : Args, value : 1..MaxMemoCalls]

MemoNext ==
  \/ \E arg \in Args, kind \in Kinds : MemoCall(arg, kind)
  \/ \E p \in MemoPendingSpace, ok \in BOOLEAN : MemoSettle(p, ok)
  \/ \E p \in MemoPendingSpace, ok \in BOOLEAN :
       MemoCachedSettle([op |-> "A", arg |-> p.arg, value |-> p.value], ok)
  \/ MemoTick

SpecMemo == MemoInit /\ [][MemoNext]_vars

\* ------------------------------------------------------------------------
\* Fallback
\* ------------------------------------------------------------------------
\* what the fallback function does when it is invoked
FbKinds == {"return", "throw", "async"}

\* fallbackFn.apply(this, args): its outcome becomes the call's outcome
invokeFallback_rethrows(r) ==
  [r EXCEPT !.fbInvoked = @ + 1,
            !.fbArgs = Append(@, r.arg),
            !.outcome = "error"]

invokeFallback(r) ==
  [r EXCEPT !.fbInvoked = @ + 1,
            !.fbArgs = Append(@, r.arg),
            !.outcome = IF r.fbKind = "return" THEN "fallback value"
                        ELSE IF r.fbKind = "throw" THEN "fallback error"
                        ELSE "fallback promise"]

\* the promise of the operation settles: only a rejection runs the catch
\* callback
fbSettle_always(r, ok) ==
  invokeFallback([r EXCEPT !.opStatus = IF ok THEN "resolved" ELSE "rejected"])

fbSettle(r, ok) ==
  IF ok THEN [r EXCEPT !.opStatus = "resolved", !.outcome = "value"]
  ELSE invokeFallback([r EXCEPT !.opStatus = "rejected"])

FallbackInit ==
  /\ fbCalls = <<>>
  /\ now = 0
  /\ BreakerQuiet
  /\ RetryQuiet
  /\ stamps = <<>>
  /\ TimeoutQuiet
  /\ CacheQuiet
  /\ MemoQuiet
  /\ RestQuiet

\* one call of the wrapped method
fallbackWrapped(arg, kind, fbKind) ==
  LET r0 == [arg |-> arg, kind |-> kind, fbKind |-> fbKind, opStatus |-> "pending",
             fbInvoked |-> 0, fbArgs |-> <<>>, outcome |-> "pending"]
      r == IF kind = "return"
             THEN [r0 EXCEPT !.opStatus = "returned", !.outcome = "value"]
           ELSE IF kind = "throw"
             THEN invokeFallback([r0 EXCEPT !.opStatus = "threw"])
           ELSE r0
  IN /\ Len(fbCalls) < MaxFallbackCalls
     /\ fbCalls' = Append(fbCalls, r)

FBCall(arg, kind, fbKind) ==
  /\ fallbackWrapped(arg, kind, fbKind)
  /\ UNCHANGED <<now, notFallback>>

\* the promise returned by the operation of call i settles
FBSettle(i, ok) ==
  /\ i \in 1..Len(fbCalls)
  /\ fbCalls[i].opStatus = "pending"
  /\ fbCalls' = [fbCalls EXCEPT ![i] = fbSettle(@, ok)]
  /\ UNCHANGED <<now, notFallback>>

FallbackNext ==
  \/ \E arg \in Args, kind \in Kinds, fbKind \in FbKinds : FBCall(arg, kind, fbKind)
  \/ \E i \in 1..MaxFallbackCalls, ok \in BOOLEAN : FBSettle(i, ok)

SpecFallback == FallbackInit /\ [][FallbackNext]_vars

\* the decorators of the cache and error files are not used
EarlierQuiet ==
  /\ BreakerQuiet
  /\ RetryQuiet
  /\ stamps = <<>>
  /\ TimeoutQuiet
  /\ CacheQuiet
  /\ MemoQuiet
  /\ FallbackQuiet

\* ------------------------------------------------------------------------
\* RateLimited
\* ------------------------------------------------------------------------
\* Math.min() of no arguments
Infinity == 1000000

\* requestTimestamps.filter(timestamp => timestamp > windowStart)
RECURSIVE filterWindow(_, _)
filterWindow(ts, windowStart) ==
  IF ts = <<>> THEN <<>>
  ELSE IF Head(ts) > windowStart
    THEN <<Head(ts)>> \o filterWindow(Tail(ts), windowStart)
    ELSE filterWindow(Tail(ts), windowStart)

\* Math.min(...requestTimestamps)
oldestRequest(ts) ==
  IF ts = <<>> THEN Infinity
  ELSE CHOOSE x \in {ts[i] : i \in 1..Len(ts)} :
         \A y \in {ts[i] : i \in 1..Len(ts)} : x <= y

\* oldestRequest + window - now
resetTime(ts, t) ==
  IF ts = <<>> THEN Infinity ELSE oldestRequest(ts) + window - t

\* Math.ceil(resetTime / 1000), the seconds of the error message
resetSeconds(reset) ==
  IF reset = Infinity THEN Infinity ELSE (reset + 999) \div 1000

\* requestTimestamps.length >= limit
\* const windowStart = now - window
windowStart_short(t) == t - window + 1

windowStart(t) == t - window

exceeded_strict(ts) == Len(ts) > limit

exceeded(ts) == Len(ts) >= limit

\* the list under the key after a call that found prev stored and ts left
\* by the filter: push and set come after the check that throws
stored_recordsRejected(prev, ts, t) == Append(ts, t)

stored(prev, ts, t) == IF exceeded(ts) THEN prev ELSE Append(ts, t)

RateCalls == Len(rateLog["X"]) + Len(rateLog["Y"])

RateInit ==
  /\ limit \in 0..MaxLimit
  /\ window \in 0..MaxWindow
  /\ rateLimitState = [k \in RateKeys |-> <<>>]
  /\ rateLog = [k \in RateKeys |-> <<>>]
  /\ now = 0
  /\ EarlierQuiet
  /\ DebounceQuiet
  /\ ThrottleQuiet
  /\ ShapeQuiet
  /\ EffectQuiet

\* one call of the wrapped method on an instance whose key is k
rateWrapped(k, kind) ==
  LET ts == filterWindow(rateLimitState[k], windowStart(now))
      reset == resetTime(ts, now)
  IN /\ RateCalls < MaxRateCalls
     /\ rateLimitState' = [rateLimitState EXCEPT
                             ![k] = stored(rateLimitState[k], ts, now)]
     /\ IF exceeded(ts)
          THEN rateLog' = [rateLog EXCEPT ![k] =
                   Append(@, [at |-> now, admitted |-> FALSE, kind |-> kind,
                              outcome |-> "rate limit error", reset |-> reset,
                              seconds |-> resetSeconds(reset),
                              pre |-> rateLimitState[k]])]
          ELSE rateLog' = [rateLog EXCEPT ![k] =
                   Append(@, [at |-> now, admitted |-> TRUE, kind |-> kind,
                              outcome |-> IF kind = "return" THEN "value"
                                          ELSE IF kind = "throw" THEN "thrown"
                                          ELSE "promise",
                              reset |-> 0, seconds |-> 0,
                              pre |-> rateLimitState[k]])]

RateCall(k, kind) ==
  /\ rateWrapped(k, kind)
  /\ UNCHANGED <<limit, window, now, notRate>>

RateTick ==
  /\ now < MaxRateTime
  /\ now' = now + 1
  /\ UNCHANGED <<rateVars, notRate>>

RateNext ==
  \/ \E k \in RateKeys, kind \in Kinds : RateCall(k, kind)
  \/ RateTick

SpecRate == RateInit /\ [][RateNext]_vars

\* ------------------------------------------------------------------------
\* DebounceSync / DebounceAsync
\* ------------------------------------------------------------------------
\* the arguments a call may pass; the operation returns its argument
DebounceArgs == {1, 2}

\* clearTimeout(existingTimeout): a timer that has fired is left as it is
clearTimeout_noop(calls, id) == calls

clearTimeout(calls, id) ==
  IF id # 0 /\ calls[id].timer = "armed"
    THEN [calls EXCEPT ![id].timer = "cleared"]
    ELSE calls

\* the timer callback of call r runs: originalMethod.apply(this, args) with
\* the args of that call. DebounceSync resolves the returned promise with
\* the result (a throw escapes the timer callback and resolves nothing);
\* DebounceAsync returns the result from the then-callback (a throw rejects)
debounceFire(r, variant, kind, t) ==
  [r EXCEPT !.timer = "fired",
            !.executedAt = t,
            !.execArg = r.arg,
            !.op = IF kind = "return" THEN "returned"
                   ELSE IF kind = "throw" THEN "threw" ELSE "pending",
            !.promise = IF kind = "return" THEN "resolved"
                        ELSE IF kind = "async" THEN "pending"
                        ELSE IF variant = "sync" THEN "pending" ELSE "rejected",
            !.value = IF kind = "return" THEN r.arg ELSE 0]

\* the promise returned by the operation settles; the wrapper's promise
\* has adopted it
debounceSettle(r, ok) ==
  [r EXCEPT !.op = IF ok THEN "resolved" ELSE "rejected",
            !.promise = IF ok THEN "resolved" ELSE "rejected",
            !.value = IF ok THEN r.arg ELSE 0]

DebounceInit ==
  /\ debounceDelay \in 0..MaxDelay
  /\ debounceVariant \in {"sync", "async"}
  /\ timeoutMap = [k \in TimerKeys |-> 0]
  /\ debounceCalls = <<>>
  /\ now = 0
  /\ EarlierQuiet
  /\ RateQuiet
  /\ ThrottleQuiet
  /\ ShapeQuiet
  /\ EffectQuiet

\* one call of the wrapped method on an instance whose key is k
debounceWrapped(k, arg) ==
  LET id == Len(debounceCalls) + 1
      r == [key |-> k, arg |-> arg, at |-> now, due |-> now + debounceDelay,
            timer |-> "armed", executedAt |-> 0, execArg |-> 0, op |-> "none",
            promise |-> "pending", value |-> 0]
  IN /\ id <= MaxDebounceCalls
     /\ now + debounceDelay <= MaxDebounceTime
     /\ debounceCalls' = Append(clearTimeout(debounceCalls, timeoutMap[k]), r)
     /\ timeoutMap' = [timeoutMap EXCEPT ![k] = id]

DebounceCall(k, arg) ==
  /\ debounceWrapped(k, arg)
  /\ UNCHANGED <<debounceDelay, debounceVariant, now, notDebounce>>

\* the timer of call i fires and the operation runs
DebounceTimer(i, kind) ==
  /\ i \in 1..Len(debounceCalls)
  /\ debounceCalls[i].timer = "armed"
  /\ now >= debounceCalls[i].due
  /\ debounceCalls' = [debounceCalls EXCEPT
                         ![i] = debounceFire(@, debounceVariant, kind, now)]
  /\ UNCHANGED <<debounceDelay, debounceVariant, timeoutMap, now, notDebounce>>

\* the promise returned by the operation of call i settles
DebounceSettle(i, ok) ==
  /\ i \in 1..Len(debounceCalls)
  /\ debounceCalls[i].op = "pending"
  /\ debounceCalls' = [debounceCalls EXCEPT ![i] = debounceSettle(@, ok)]
  /\ UNCHANGED <<debounceDelay, debounceVariant, timeoutMap, now, notDebounce>>

DebounceTick ==
  /\ now < MaxDebounceTime
  /\ now' = now + 1
  /\ UNCHANGED <<debounceVars, notDebounce>>

DebounceTimers == \E i \in 1..MaxDebounceCalls, kind \in Kinds : DebounceTimer(i, kind)

DebounceSettles == \E i \in 1..MaxDebounceCalls, ok \in BOOLEAN : DebounceSettle(i, ok)

DebounceNext ==
  \/ \E k \in TimerKeys, arg \in DebounceArgs : DebounceCall(k, arg)
  \/ DebounceTimers
  \/ DebounceSettles
  \/ DebounceTick

SpecDebounce == DebounceInit /\ [][DebounceNext]_vars

\* timers that are due fire, promises of the operation settle and time
\* passes
SpecDebounceLive ==
  /\ SpecDebounce
  /\ WF_vars(DebounceTimers)
  /\ WF_vars(DebounceSettles)
  /\ WF_vars(DebounceTick)

\* ------------------------------------------------------------------------
\* ThrottleSync / ThrottleAsync
\* ------------------------------------------------------------------------
\* Date.now() when the model's clock reads 0: larger than any interval
Epoch == 1000

DateNow(t) == Epoch + t

\* now - lastCall >= interval, with lastCall = lastCallMap.get(key) || 0
throttleOpen(k, t) == DateNow(t) - lastCallMap[k] >= interval

\* ThrottleSync records the call time before the operation runs;
\* ThrottleAsync records time and result after the operation has returned,
\* and so records nothing when it throws
recordsCall(variant, kind) == variant = "sync" \/ kind # "throw"

\* lastCallMap.set(key, now) sits inside `if (now - lastCall >= interval)`:
\* only a call that passes the check can record its time
setsLastCall_everyCall(open, variant, kind) == recordsCall(variant, kind)

setsLastCall(open, variant, kind) == open /\ recordsCall(variant, kind)

\* what the operation does when it runs: as Kinds, or it returns undefined
ThrottleKinds == Kinds \cup {"void"}

\* lastResult || Promise.resolve(undefined); a result of the operation is a
\* promise, a truthy value or undefined
lastResultOr(k) ==
  IF lastResultMap[k] # NoCall /\ throttleCalls[lastResultMap[k]].kind # "void"
    THEN <<"result of", lastResultMap[k]>>
    ELSE <<"resolved", "undefined">>

\* what a call inside the interval returns
throttledReturn(variant, k) ==
  IF variant = "sync" THEN <<"undefined">> ELSE lastResultOr(k)

ThrottleInit ==
  /\ interval \in 0..MaxInterval
  /\ throttleVariant \in {"sync", "async"}
  /\ lastCallMap = [k \in ThrottleKeys |-> NoCall]
  /\ lastResultMap = [k \in ThrottleKeys |-> NoCall]
  /\ throttleCalls = <<>>
  /\ now = 0
  /\ EarlierQuiet
  /\ RateQuiet
  /\ DebounceQuiet
  /\ ShapeQuiet
  /\ EffectQuiet

\* one call of the wrapped method on an instance whose key is k
throttleWrapped(k, kind) ==
  LET id == Len(throttleCalls) + 1
      open == throttleOpen(k, now)
      r == [key |-> k, at |-> now, executed |-> open,
            kind |-> IF open THEN kind ELSE "none",
            op |-> IF ~open THEN "none"
                   ELSE IF kind \in {"return", "void"} THEN "returned"
                   ELSE IF kind = "throw" THEN "threw" ELSE "pending",
            ret |-> IF ~open THEN throttledReturn(throttleVariant, k)
                    ELSE IF kind = "throw" THEN <<"thrown">>
                    ELSE IF kind = "void" THEN <<"undefined">>
                    ELSE <<"result of", id>>]
  IN /\ id <= MaxThrottleCalls
     /\ throttleCalls' = Append(throttleCalls, r)
     /\ lastCallMap' = IF setsLastCall(open, throttleVariant, kind)
                         THEN [lastCallMap EXCEPT ![k] = DateNow(now)]
                         ELSE lastCallMap
     /\ lastResultMap' = IF open /\ throttleVariant = "async" /\ kind # "throw"
                           THEN [lastResultMap EXCEPT ![k] = id]
                           ELSE lastResultMap

\* a call inside the interval does not look at the operation: one kind
\* stands for all
ThrottleCall(k, kind) ==
  /\ ~throttleOpen(k, now) => kind = "return"
  /\ throttleWrapped(k, kind)
  /\ UNCHANGED <<interval, throttleVariant, now, notThrottle>>

\* the promise returned by the operation of call i settles
ThrottleSettle(i, ok) ==
  /\ i \in 1..Len(throttleCalls)
  /\ throttleCalls[i].op = "pending"
  /\ throttleCalls' = [throttleCalls EXCEPT
                         ![i].op = IF ok THEN "resolved" ELSE "rejected"]
  /\ UNCHANGED <<interval, throttleVariant, lastCallMap, lastResultMap, now,
                 notThrottle>>

ThrottleTick ==
  /\ now < MaxThrottleTime
  /\ now' = now + 1
  /\ UNCHANGED <<throttleVars, notThrottle>>

ThrottleNext ==
  \/ \E k \in ThrottleKeys, kind \in ThrottleKinds : ThrottleCall(k, kind)
  \/ \E i \in 1..MaxThrottleCalls, ok \in BOOLEAN : ThrottleSettle(i, ok)
  \/ ThrottleTick

SpecThrottle == ThrottleInit /\ [][ThrottleNext]_vars

\* ------------------------------------------------------------------------
\* Call shape of the wrappers
\* ------------------------------------------------------------------------
Wrappers == {"Cached", "Memoize", "Retry", "Timeout", "CircuitBreaker",
             "Fallback", "RateLimited", "ThrottleSync", "ThrottleAsync",
             "DebounceSync", "DebounceAsync"}

\* an immediate value (or synchronous throw) or a pending value
opShape(kind) == IF kind = "async" THEN "pending" ELSE "immediate"

\* the shape of what the wrapped method returns; path is "invoke" when the
\* operation is invoked and "short" when the wrapper returns without it;
\* other is the shape of the value the wrapper hands out in place of the
\* operation's: the result of the fallback, or lastResult ||
\* Promise.resolve(undefined)
wrappedShape(w, kind, path, other) ==
  CASE w \in {"Cached", "Memoize"} ->
         IF path = "short" THEN "immediate" ELSE opShape(kind)
    [] w \in {"Retry", "CircuitBreaker", "DebounceSync", "DebounceAsync"} ->
         "pending"
    [] w = "Timeout" -> IF kind = "throw" THEN "immediate" ELSE "pending"
    [] w = "Fallback" -> IF kind = "throw" THEN other ELSE opShape(kind)
    [] w \in {"RateLimited", "ThrottleSync"} ->
         IF path = "short" THEN "immediate" ELSE opShape(kind)
    [] w = "ThrottleAsync" ->
         IF path = "short" THEN other ELSE opShape(kind)

\* the shape of lastResult || Promise.resolve(undefined): the recorded
\* result when it is a promise or a truthy value, a promise otherwise
lastResultShape(k) ==
  LET ret == lastResultOr(k)
  IN IF ret[1] = "result of" THEN opShape(throttleCalls[ret[2]].kind)
     ELSE "pending"

\* the program decorates one method with each wrapper; one of the
\* decorators is given any of its options, the others fixed ones
ShapeInit ==
  \/ CBInit
  \/ RetryInit
  \/ TimeoutInit
  \/ CacheInit
  \/ FallbackInit
  \/ RateInit
  \/ DebounceInit
  \/ ThrottleInit

\* the call is recorded with the kind of its operation and the shape of
\* what the wrapped method returned
observe(w, kind, path, other) ==
  /\ Len(shapeCalls) < MaxShapeCalls
  /\ shapeCalls' = Append(shapeCalls,
                          [wrapper |-> w, kind |-> kind, path |-> path,
                           shape |-> wrappedShape(w, kind, path, other)])

pathOf(short) == IF short THEN "short" ELSE "invoke"

ShapeCached(kind) ==
  /\ observe("Cached", kind,
             pathOf(cacheLookup(cache, cacheKey("A", 1), now).hit), "none")
  /\ cachedBody("A", 1, kind)
  /\ UNCHANGED <<cbVars, retryVars, stamps, toVars, memoVars, fbVars, laterVars>>

ShapeCachedSettle(p, ok) ==
  /\ p \in cachePending
  /\ cachedThen(p, ok)
  /\ UNCHANGED <<cbVars, retryVars, stamps, toVars, memoVars, fbVars, laterVars,
                 shapeVars>>

ShapeMemoize(kind) ==
  /\ observe("Memoize", kind, pathOf(memoLookup(memoized, 1).hit), "none")
  /\ memoBody(1, kind)
  /\ UNCHANGED <<now, memoStep, cbVars, retryVars, stamps, toVars, cacheVars,
                 fbVars, laterVars>>

ShapeMemoizeSettle(p, ok) ==
  /\ p \in memoPending
  /\ memoThen(p, ok)
  /\ UNCHANGED <<now, memoStep, cbVars, retryVars, stamps, toVars, cacheVars,
                 fbVars, laterVars, shapeVars>>

ShapeRetry(c, kind) ==
  /\ c \in DOMAIN retryCalls
  /\ observe("Retry", kind, "invoke", "none")
  /\ retryWrapped(c, kind)
  /\ UNCHANGED <<maxRetries, strategy, backoff, onRetryGiven, now, stamps,
                 cbVars, toVars, cacheVars, memoVars, fbVars, laterVars>>

ShapeTimeout(kind) ==
  /\ observe("Timeout", kind, "invoke", "none")
  /\ timeoutWrapped(kind)
  /\ UNCHANGED <<ms, now, cbVars, retryVars, stamps, cacheVars, memoVars,
                 fbVars, laterVars>>

ShapeCircuitBreaker(kind) ==
  /\ observe("CircuitBreaker", kind,
             pathOf(~openGate(circuitState, now).admit), "none")
  /\ cbWrapped(kind)
  /\ UNCHANGED <<failureThreshold, resetTimeout, now, retryVars, stamps, toVars,
                 cacheVars, memoVars, fbVars, laterVars>>

ShapeFallback(kind, fbKind) ==
  /\ observe("Fallback", kind, "invoke", opShape(fbKind))
  /\ fallbackWrapped(1, kind, fbKind)
  /\ UNCHANGED <<now, cbVars, retryVars, stamps, toVars, cacheVars, memoVars,
                 laterVars>>

ShapeRateLimited(kind) ==
  /\ observe("RateLimited", kind,
             pathOf(exceeded(filterWindow(rateLimitState["X"], windowStart(now)))),
             "none")
  /\ rateWrapped("X", kind)
  /\ UNCHANGED <<limit, window, now, earlierVars, debounceVars, throttleVars,
                 effectVars>>

ShapeDebounce(kind) ==
  /\ observe(IF debounceVariant = "sync" THEN "DebounceSync" ELSE "DebounceAsync",
             kind, "deferred", "none")
  /\ debounceWrapped("X", 1)
  /\ UNCHANGED <<debounceDelay, debounceVariant, now, earlierVars, rateVars,
                 throttleVars, effectVars>>

ShapeThrottle(kind) ==
  /\ observe(IF throttleVariant = "sync" THEN "ThrottleSync" ELSE "ThrottleAsync",
             kind, pathOf(~throttleOpen("X", now)), lastResultShape("X"))
  /\ throttleWrapped("X", kind)
  /\ UNCHANGED <<interval, throttleVariant, now, earlierVars, rateVars,
                 debounceVars, effectVars>>

ShapeNext ==
  \/ \E kind \in Kinds : ShapeCached(kind)
  \/ \E p \in PendingSpace, ok \in BOOLEAN : ShapeCachedSettle(p, ok)
  \/ \E kind \in Kinds : ShapeMemoize(kind)
  \/ \E p \in MemoPendingSpace, ok \in BOOLEAN : ShapeMemoizeSettle(p, ok)
  \/ \E c \in 1..MaxRetryCalls, kind \in Kinds : ShapeRetry(c, kind)
  \/ \E kind \in Kinds : ShapeTimeout(kind)
  \/ \E kind \in Kinds : ShapeCircuitBreaker(kind)
  \/ \E kind \in Kinds, fbKind \in FbKinds : ShapeFallback(kind, fbKind)
  \/ \E kind \in Kinds : ShapeRateLimited(kind)
  \/ \E kind \in Kinds : ShapeDebounce(kind)
  \/ \E kind \in ThrottleKinds : ShapeThrottle(kind)

SpecShape == ShapeInit /\ [][ShapeNext]_vars

\* ------------------------------------------------------------------------
\* EffectAfter / EffectError
\* ------------------------------------------------------------------------
Effects == {"after", "error"}

\* fn(effectContext) runs with the operation's result or error in the
\* context; it returns, throws or returns a promise
runHook(r, given) ==
  [r EXCEPT !.hookRuns = @ + 1,
            !.hookGiven = Append(@, given),
            !.hook = IF r.hookKind = "return" THEN "returned"
                     ELSE IF r.hookKind = "throw" THEN "threw" ELSE "pending"]

\* what the caller receives once the hook has returned, thrown or settled:
\* a hook that fails replaces the outcome with its own error
deliver(r, original) ==
  [r EXCEPT !.outcome = IF r.hook \in {"returned", "resolved"} THEN original
                        ELSE IF r.hook \in {"threw", "rejected"} THEN "hook error"
                        ELSE "pending"]

\* the operation has succeeded / failed: EffectAfter runs the hook on
\* success and lets a failure through, EffectError the reverse
effectOnResult(r, ok) ==
  IF ok
    THEN IF r.effect = "after" THEN deliver(runHook(r, "result"), "result")
         ELSE [r EXCEPT !.outcome = "result"]
    ELSE IF r.effect = "error" THEN deliver(runHook(r, "error"), "error")
         ELSE [r EXCEPT !.outcome = "error"]

EffectInit ==
  /\ effectCalls = <<>>
  /\ now = 0
  /\ EarlierQuiet
  /\ RateQuiet
  /\ DebounceQuiet
  /\ ThrottleQuiet
  /\ ShapeQuiet

\* one call of the wrapped method
EffectCall(effect, kind, hookKind) ==
  LET r0 == [effect |-> effect, kind |-> kind, hookKind |-> hookKind,
             op |-> "pending", hook |-> "none", hookRuns |-> 0,
             hookGiven |-> <<>>, outcome |-> "pending"]
      r == IF kind = "return"
             THEN effectOnResult([r0 EXCEPT !.op = "returned"], TRUE)
           ELSE IF kind = "throw"
             THEN effectOnResult([r0 EXCEPT !.op = "threw"], FALSE)
           ELSE r0
  IN /\ Len(effectCalls) < MaxEffectCalls
     /\ effectCalls' = Append(effectCalls, r)
     /\ UNCHANGED <<now, notEffect>>

\* the promise returned by the operation of call i settles
EffectOpSettle(i, ok) ==
  /\ i \in 1..Len(effectCalls)
  /\ effectCalls[i].op = "pending"
  /\ effectCalls' = [effectCalls EXCEPT ![i] =
       effectOnResult([@ EXCEPT !.op = IF ok THEN "resolved" ELSE "rejected"], ok)]
  /\ UNCHANGED <<now, notEffect>>

\* the promise returned by the hook of call i settles
EffectHookSettle(i, ok) ==
  /\ i \in 1..Len(effectCalls)
  /\ effectCalls[i].hook = "pending"
  /\ effectCalls' = [effectCalls EXCEPT ![i] =
       deliver([@ EXCEPT !.hook = IF ok THEN "resolved" ELSE "rejected"],
               IF @.effect = "after" THEN "result" ELSE "error")]
  /\ UNCHANGED <<now, notEffect>>

EffectNext ==
  \/ \E effect \in Effects, kind \in Kinds, hookKind \in Kinds :
       EffectCall(effect, kind, hookKind)
  \/ \E i \in 1..MaxEffectCalls, ok \in BOOLEAN : EffectOpSettle(i, ok)
  \/ \E i \in 1..MaxEffectCalls, ok \in BOOLEAN : EffectHookSettle(i, ok)

SpecEffect == EffectInit /\ [][EffectNext]_vars

\* ------------------------------------------------------------------------
\* CircuitBreaker: properties (checked under Spec)
\* ------------------------------------------------------------------------
\* the handler that ran last passed a failure of the operation to handleFailure
FailureEvent ==
  \/ last.op = "reject"
  \/ /\ last.op = "call"
     /\ cbCalls[last.id].admitted
     /\ cbCalls[last.id].kind = "throw"

\* the handler that ran last saw the operation of a trial call succeed
TrialSuccessEvent ==
  /\ last.op \in {"call", "resolve"}
  /\ cbCalls[last.id].trial
  /\ cbCalls[last.id].status = "resolved"

\* C1: from Closed with failures = 0 the breaker stays Closed while fewer
\* than failureThreshold failures have been counted, and the failure that
\* brings the count to failureThreshold moves it to Open and records the time
\* of that failure in lastFailureTime.
C1_ThresholdOpens ==
  /\ trajectory = <<>> => (state = "closed" <=> failures < failureThreshold)
  /\ (FailureEvent /\ last.mid = "closed") =>
       /\ failures = last.pre.failures + 1
       /\ IF failures < failureThreshold
            THEN state = "closed"
            ELSE state = "open" /\ lastFailureTime = now

C1_Witness ==
  /\ FailureEvent
  /\ last.mid = "closed"
  /\ failureThreshold = 2
  /\ last.pre.failures = 1
  /\ state = "open"
  /\ lastFailureTime = now
  /\ now > 0

\* C2: a call that finds the breaker Open less than resetTimeout after
\* lastFailureTime is rejected with 'Circuit breaker is open' and does not
\* invoke the operation.
C2_OpenRejects ==
  (/\ last.op = "call"
   /\ last.pre.state = "open"
   /\ now - last.pre.lastFailureTime < resetTimeout) =>
     /\ cbCalls[last.id].status = "rejected"
     /\ cbCalls[last.id].error = CircuitOpenError
     /\ ~cbCalls[last.id].admitted
     /\ invocations = last.pre.invocations

C2_Witness ==
  /\ last.op = "call"
  /\ last.pre.state = "open"
  /\ now - last.pre.lastFailureTime < resetTimeout
  /\ now > last.pre.lastFailureTime
  /\ cbCalls[last.id].error = CircuitOpenError

\* a call that finds the breaker Open with resetTimeout elapsed moves it to
\* Half-Open (onStateChange('half-open')) and invokes the operation
OpenCallAfterTimeout ==
  /\ last.op = "call"
  /\ last.pre.state = "open"
  /\ now - last.pre.lastFailureTime >= resetTimeout

TrialAdmitted ==
  OpenCallAfterTimeout =>
     /\ cbCalls[last.id].admitted
     /\ cbCalls[last.id].trial
     /\ invocations = last.pre.invocations + 1
     /\ last.mid = "half-open"
     /\ Len(notified) > last.pre.nlen
     /\ notified[last.pre.nlen + 1] = "half-open"

\* C3 as stated: a call made while Open with resetTimeout elapsed moves the
\* breaker to Half-Open and invokes the operation, and if that call succeeds
\* the breaker becomes Closed with failures = 0.
C3_Original ==
  /\ TrialAdmitted
  /\ TrialSuccessEvent => (state = "closed" /\ failures = 0)

\* C3 (amended): a call made while Open with resetTimeout elapsed moves the
\* breaker to Half-Open and invokes the operation; if that call succeeds
\* while the breaker is still Half-Open, the breaker becomes Closed with
\* failures = 0.
C3_TrialSuccessCloses ==
  /\ TrialAdmitted
  /\ (TrialSuccessEvent /\ last.mid = "half-open") =>
       (state = "closed" /\ failures = 0)

C3_Witness ==
  /\ TrialSuccessEvent
  /\ last.op = "resolve"
  /\ last.mid = "half-open"
  /\ last.pre.failures >= failureThreshold
  /\ state = "closed"
  /\ failures = 0

\* C4: onStateChange is called once for each change of the breaker state,
\* with the new state, and is not called by a handler that leaves the state
\* as it was.
C4_NotifyPerTransition ==
  /\ notified = trajectory
  /\ (last.op \in {"call", "resolve", "reject"} /\ last.mid = last.pre.state
        /\ state = last.mid) => Len(notified) = last.pre.nlen

C4_Witness ==
  /\ last.op = "reject"
  /\ last.pre.state = "open"
  /\ state = "open"
  /\ failures > last.pre.failures
  /\ Len(notified) = last.pre.nlen
  /\ Len(notified) >= 3

\* C5: while the breaker is Half-Open and its trial call is still pending, a
\* further call does not invoke the operation.
C5_SingleTrial ==
  (/\ last.op = "call"
   /\ last.pre.state = "half-open"
   /\ \E j \in 1..Len(cbCalls) :
        /\ j # last.id
        /\ cbCalls[j].trial
        /\ cbCalls[j].status = "pending") =>
     invocations = last.pre.invocations

\* C6: a failure of the operation that arrives while the breaker is
\* Half-Open moves it to Open, sets lastFailureTime to the time of the
\* failure, and the call is rejected with the operation's own error.
C6_HalfOpenFailureReopens ==
  (FailureEvent /\ last.mid = "half-open") =>
     /\ state = "open"
     /\ lastFailureTime = now
     /\ failures = last.pre.failures + 1
     /\ cbCalls[last.id].status = "rejected"
     /\ cbCalls[last.id].error = OperationError

C6_Witness ==
  /\ FailureEvent
  /\ last.mid = "half-open"
  /\ state = "open"
  /\ lastFailureTime = now
  /\ now > last.pre.lastFailureTime
  /\ cbCalls[last.id].error = OperationError

\* ------------------------------------------------------------------------
\* Retry: properties (checked under SpecRetry)
\* ------------------------------------------------------------------------
RetryIds == 1..MaxRetryCalls

AllFailed(r) == \A k \in 1..Len(r.log) : r.log[k] = "err"

\* C7: a call whose every attempt fails invokes the operation exactly
\* maxRetries + 1 times and then fails; no call invokes it more often.
C7_RetryBudget ==
  \A c \in RetryIds :
    LET r == retryCalls[c]
    IN /\ Len(r.log) <= maxRetries + 1
       /\ (r.phase = "done" /\ AllFailed(r)) =>
            (Len(r.log) = maxRetries + 1 /\ r.outcome = "error")
       /\ (AllFailed(r) /\ Len(r.log) = maxRetries + 1) =>
            (r.phase = "done" /\ r.outcome = "error")

C7_Witness ==
  \E c \in RetryIds :
    /\ retryCalls[c].phase = "done"
    /\ AllFailed(retryCalls[c])
    /\ maxRetries = 2
    /\ Len(retryCalls[c].log) = 3
    /\ retryCalls[c].outcome = "error"

\* C8: when a call fails, the error it delivers is the error of the last
\* attempt of the operation.
C8_LastErrorSurfaces ==
  \A c \in RetryIds :
    LET r == retryCalls[c]
    IN (r.phase = "done" /\ r.outcome = "error") =>
         /\ r.result = Outcome(c, Len(r.log))
         /\ r.log[Len(r.log)] = "err"

C8_Witness ==
  \E c \in RetryIds :
    /\ retryCalls[c].phase = "done"
    /\ retryCalls[c].outcome = "error"
    /\ Len(retryCalls[c].log) >= 2
    /\ retryCalls[c].result = Outcome(c, Len(retryCalls[c].log))

\* C9: the first successful attempt k ends the call: the call returns the
\* value of attempt k and the operation has been invoked exactly k times.
C9_SuccessStops ==
  \A c \in RetryIds :
    LET r == retryCalls[c]
    IN \A k \in 1..Len(r.log) :
         r.log[k] = "ok" =>
           /\ k = Len(r.log)
           /\ k <= maxRetries + 1
           /\ r.phase = "done"
           /\ r.outcome = "value"
           /\ r.result = Outcome(c, k)

C9_Witness ==
  \E c \in RetryIds :
    /\ Len(retryCalls[c].log) = 2
    /\ retryCalls[c].log[2] = "ok"
    /\ maxRetries = 2
    /\ retryCalls[c].phase = "done"
    /\ now > 0

\* the retries call c has performed so far: a retry is performed when the
\* wait after a failed attempt is started
RetriesPerformed(r) ==
  IF r.phase = "idle" THEN 0
  ELSE IF r.phase = "waiting" THEN Len(r.log)
  ELSE Len(r.log) - 1

\* C10: onRetry is called once before each retry with the error of the
\* attempt that just failed and that attempt's 1-based number; it is called
\* as often as retries are performed, at most maxRetries times, and not
\* after the final failed attempt.
C10_OnRetryPerRetry ==
  \A c \in RetryIds :
    LET r == retryCalls[c]
    IN IF onRetryGiven
         THEN /\ Len(r.onRetryLog) = RetriesPerformed(r)
              /\ Len(r.onRetryLog) <= maxRetries
              /\ \A i \in 1..Len(r.onRetryLog) :
                   /\ r.onRetryLog[i] = [error |-> Outcome(c, i), attempt |-> i]
                   /\ r.log[i] = "err"
         ELSE r.onRetryLog = <<>>

C10_Witness ==
  \E c \in RetryIds :
    /\ onRetryGiven
    /\ retryCalls[c].phase = "done"
    /\ retryCalls[c].outcome = "error"
    /\ Len(retryCalls[c].log) = 3
    /\ Len(retryCalls[c].onRetryLog) = 2

\* ------------------------------------------------------------------------
\* Retry backoff: properties (checked under SpecBackoff)
\* ------------------------------------------------------------------------
\* C11: with strategy = exponential the wait before the k-th retry is
\* backoff * 2^(k-1), so the k-th retry starts at least backoff * (2^k - 1)
\* after the first attempt; with strategy = normal every wait is backoff.
C11_BackoffWaits ==
  LET r == retryCalls[1]
      Wait(k) == IF strategy = "exponential" THEN backoff * (2 ^ (k - 1))
                 ELSE backoff
      Total(k) == IF strategy = "exponential" THEN backoff * ((2 ^ k) - 1)
                  ELSE backoff * k
  IN /\ \A k \in 1..Len(r.delays) : r.delays[k] = Wait(k)
     /\ \A k \in 1..(Len(stamps) - 1) :
          /\ Len(r.delays) >= k
          /\ stamps[k + 1] - stamps[k] >= Wait(k)
          /\ stamps[k + 1] - stamps[1] >= Total(k)

C11_Witness ==
  /\ strategy = "exponential"
  /\ backoff = 2
  /\ Len(stamps) = 3
  /\ stamps[3] - stamps[1] = 6
  /\ retryCalls[1].delays = <<2, 4>>

\* ------------------------------------------------------------------------
\* Timeout: properties (checked under SpecTimeout)
\* ------------------------------------------------------------------------
OwnOutcome(r) ==
  IF r.opStatus = "resolved" THEN "value"
  ELSE IF r.opStatus = "rejected" THEN "error"
  ELSE IF r.opStatus = "threw" THEN "thrown"
  ELSE "pending"

\* C12: a call whose operation settles before the timer fires delivers the
\* operation's own outcome; a call whose timer fires first delivers the
\* timeout failure '<name> timed out after <ms>ms'; the timer fires no
\* earlier than ms after the call.
C12_FirstSettles ==
  \A i \in 1..Len(toCalls) :
    LET r == toCalls[i]
    IN /\ r.order = <<>> => r.outcome = OwnOutcome(r)
       /\ (r.order # <<>> /\ r.order[1] = "op") =>
            (r.outcome = OwnOutcome(r) /\ r.message = <<>>)
       /\ (r.order # <<>> /\ r.order[1] = "timer") =>
            /\ r.outcome = "timeout"
            /\ r.message = <<"method", "timed out after", ms, "ms">>
       /\ r.timer = "fired" => now >= r.due

C12_Witness ==
  \E i \in 1..Len(toCalls) :
    /\ toCalls[i].order = <<"op", "timer">>
    /\ toCalls[i].opStatus = "rejected"
    /\ toCalls[i].outcome = "error"
    /\ ms = 2

\* C13: when the timer wins, the operation still settles afterwards, and
\* the caller's outcome is settled exactly once and stays the timeout
\* failure.
C13_TimeoutStays ==
  \A i \in 1..Len(toCalls) :
    LET r == toCalls[i]
    IN /\ r.settles <= 1
       /\ (r.order # <<>> /\ r.order[1] = "timer") =>
            /\ r.settles = 1
            /\ r.outcome = "timeout"
            /\ r.opStatus \in {"pending", "resolved", "rejected"}
            /\ Len(r.order) = 2 => r.opStatus \in {"resolved", "rejected"}

C13_Witness ==
  \E i \in 1..Len(toCalls) :
    /\ toCalls[i].order = <<"timer", "op">>
    /\ toCalls[i].opStatus = "resolved"
    /\ toCalls[i].outcome = "timeout"
    /\ ms > 0

\* ------------------------------------------------------------------------
\* Cached: properties (checked under SpecCache)
\* ------------------------------------------------------------------------
LastKey == cacheKey(cacheLast.op, cacheLast.arg)

\* the call that ran last invoked the operation
LastInvoked == cacheInvoked[cacheLast.op] = cacheLast.preInvoked + 1

LastNotInvoked == cacheInvoked[cacheLast.op] = cacheLast.preInvoked

\* C14: with expiryTime = T, a call that finds the entry a synchronous call
\* stored at t0 invokes the operation again if and only if now >= t0 + T.
C14_ExpiryBoundary ==
  (/\ cacheLast.ev = "call"
   /\ expiryTime # NoExpiry
   /\ cacheLast.preEntry.present
   /\ cacheLast.preEntry.sync) =>
     /\ LastInvoked <=> now >= cacheLast.preEntry.at + expiryTime
     /\ LastNotInvoked <=> now < cacheLast.preEntry.at + expiryTime

\* C15: a call that finds a live entry (no expiry, or expiry > now) returns
\* the value that entry was stored with and does not invoke the operation.
C15_LiveEntryHits ==
  (/\ cacheLast.ev = "call"
   /\ cacheLast.preEntry.present
   /\ (cacheLast.preEntry.expiry = NoExpiry \/ cacheLast.preEntry.expiry > now)) =>
     /\ cacheLast.hit
     /\ cacheLast.outcome = "value"
     /\ cacheLast.ret = cacheLast.preEntry.value
     /\ LastNotInvoked
     /\ cache[LastKey] = cacheLast.preEntry

C15_Witness ==
  /\ cacheLast.ev = "call"
  /\ cacheLast.hit
  /\ expiryTime = 2
  /\ cacheLast.preEntry.expiry > now
  /\ now > cacheLast.preEntry.at
  /\ cacheLast.ret = cacheLast.preEntry.value
  /\ cacheInvoked[cacheLast.op] = 2

\* an asynchronous invocation writes the entry when its promise resolves and
\* not before; a rejection reaches the caller and writes nothing
AsyncStoresOnResolve ==
  /\ (cacheLast.ev = "call" /\ ~cacheLast.hit /\ cacheLast.kind = "async") =>
       /\ cacheLast.outcome = "pending"
       /\ cache[LastKey] = NoEntry
       /\ [op |-> cacheLast.op, arg |-> cacheLast.arg,
           value |-> cacheInvoked[cacheLast.op]] \in cachePending
  /\ cacheLast.ev = "resolve" =>
       /\ cache[LastKey].present
       /\ cache[LastKey].value = cacheLast.ret
       /\ cache[LastKey].at = now
       /\ cacheLast.outcome = "value"
  /\ cacheLast.ev = "reject" =>
       /\ cacheLast.outcome = "error"
       /\ cache[LastKey] = cacheLast.preEntry

\* the call is the first one for its key since an invocation for that key
\* rejected
AfterRejection == cacheLast.ev = "call" /\ cacheLast.preRejected # "no"

\* C16 as stated: an asynchronous invocation writes its entry only when it
\* resolves; a rejection is delivered and writes no entry, so the next call
\* with the same key misses and invokes the operation again.
C16_Original ==
  /\ AsyncStoresOnResolve
  /\ AfterRejection => (~cacheLast.hit /\ LastInvoked)

\* C16 (amended): an asynchronous invocation writes its entry only when it
\* resolves; a rejection is delivered and writes no entry, so the next call
\* with the same key misses and invokes the operation again, unless another
\* invocation for the key had a live entry in the cache when the rejection
\* arrived or has stored one between the rejection and that call.
C16_RejectionNotCached ==
  /\ AsyncStoresOnResolve
  /\ (AfterRejection /\ cacheLast.preRejected = "clean") =>
       (~cacheLast.hit /\ LastInvoked)

\* an invocation rejected, nothing was stored for its key, and the next call
\* with the key invoked the operation a second time
C16_Witness ==
  /\ AfterRejection
  /\ cacheLast.preRejected = "clean"
  /\ ~cacheLast.hit
  /\ cacheLast.preInvoked = 1
  /\ cacheInvoked[cacheLast.op] = 2

\* C17: invalidate of one method removes every entry of that method and
\* leaves the entries of the other method as they were.
C17_InvalidateScoped ==
  cacheLast.ev = "invalidate" =>
    \A k \in Keys :
      IF k[1] = cacheLast.op THEN ~cache[k].present
      ELSE cache[k] = cacheLast.preCache[k]

\* C18: the first call for a key after an invalidate that removed its entry
\* misses and invokes the operation, whatever the entry's expiry was.
C18_InvalidateForcesMiss ==
  (cacheLast.ev = "call" /\ cacheLast.preInvalidated) =>
    (~cacheLast.hit /\ LastInvoked)

\* ------------------------------------------------------------------------
\* Memoize: properties (checked under SpecMemo)
\* ------------------------------------------------------------------------
\* the two methods have seen the same calls and the same settlements, in
\* the same order
InStep == memoStep.aligned /\ memoStep.ahead.side = "none"

\* C19: on the same calls (and the same settlements of the operation's
\* promises, in the same order) Memoize and Cached() without expiryTime
\* invoke the operation on the same calls and deliver the same values, and
\* an entry of memoized is never removed.
C19_MemoizeIsCached ==
  /\ (memoStep.aligned /\ memoLast.ev = "call" /\ cacheLast.ev = "call") =>
       /\ memoLast.arg = cacheLast.arg
       /\ memoLast.hit = cacheLast.hit
       /\ memoLast.outcome = cacheLast.outcome
       /\ memoLast.ret = cacheLast.ret
       /\ memoInvoked = cacheInvoked["A"]
  /\ InStep =>
       /\ memoInvoked = cacheInvoked["A"]
       /\ memoPending = {[arg |-> p.arg, value |-> p.value] :
                           p \in {q \in cachePending : q.op = "A"}}
       /\ \A a \in Args :
            /\ memoized[a].present = cache[cacheKey("A", a)].present
            /\ memoized[a].value = cache[cacheKey("A", a)].value
       /\ (/\ memoLast.ev \in {"resolve", "reject"}
           /\ cacheLast.ev \in {"resolve", "reject"}) =>
            /\ cacheLast.ev = memoLast.ev
            /\ cacheLast.outcome = memoLast.outcome
            /\ cacheLast.ret = memoLast.ret
  /\ \A a \in Args : memoLast.pre[a].present => memoized[a].present

\* a value stored when the promises resolved, first under one decorator and
\* then under the other, is returned by both on the next call
C19_Witness ==
  /\ InStep
  /\ memoLast.ev = "call"
  /\ memoLast.hit
  /\ cacheLast.hit
  /\ memoLast.ret = 2
  /\ cacheLast.ret = 2
  /\ memoInvoked = 2
  /\ ~cache[LastKey].sync
  /\ now > 0

\* ------------------------------------------------------------------------
\* Fallback: properties (checked under SpecFallback)
\* ------------------------------------------------------------------------
\* C20: a call whose operation succeeded has not invoked the fallback; a call
\* whose operation threw or rejected has invoked it exactly once.
C20_FallbackOnFailureOnly ==
  \A i \in 1..Len(fbCalls) :
    /\ fbCalls[i].opStatus \in {"returned", "resolved"} => fbCalls[i].fbInvoked = 0
    /\ fbCalls[i].opStatus \in {"threw", "rejected"} => fbCalls[i].fbInvoked = 1
    /\ fbCalls[i].opStatus = "pending" => fbCalls[i].fbInvoked = 0

C20_Witness ==
  \E i, j, k \in 1..Len(fbCalls) :
    /\ fbCalls[i].opStatus = "resolved" /\ fbCalls[i].fbInvoked = 0
    /\ fbCalls[j].opStatus = "rejected" /\ fbCalls[j].fbInvoked = 1
    /\ fbCalls[k].opStatus = "threw" /\ fbCalls[k].fbInvoked = 1

\* C21: a call whose operation threw or rejected has invoked the fallback
\* with the call's own arguments, and what the caller receives is the
\* fallback's value or the fallback's own failure, never the operation's
\* error.
C21_FallbackOutcomeDelivered ==
  \A i \in 1..Len(fbCalls) :
    fbCalls[i].opStatus \in {"threw", "rejected"} =>
      /\ fbCalls[i].fbArgs = <<fbCalls[i].arg>>
      /\ fbCalls[i].outcome =
           (IF fbCalls[i].fbKind = "return" THEN "fallback value"
            ELSE IF fbCalls[i].fbKind = "throw" THEN "fallback error"
            ELSE "fallback promise")
      /\ fbCalls[i].outcome # "error"

C21_Witness ==
  \E i, j \in 1..Len(fbCalls) :
    /\ fbCalls[i].opStatus = "rejected"
    /\ fbCalls[i].fbKind = "throw"
    /\ fbCalls[i].outcome = "fallback error"
    /\ fbCalls[j].opStatus = "threw"
    /\ fbCalls[j].fbKind = "return"
    /\ fbCalls[j].outcome = "fallback value"
    /\ fbCalls[j].fbArgs = <<fbCalls[j].arg>>

\* ------------------------------------------------------------------------
\* RateLimited: properties (checked under SpecRate)
\* ------------------------------------------------------------------------
\* C22: with limit >= 1, the first limit calls made on a key less than
\* window after its first call invoke the operation, and call limit+1 made
\* in that window is rejected with 0 < time until reset <= window.
C22_LimitPerWindow ==
  \A k \in RateKeys :
    \A i \in 1..Len(rateLog[k]) :
      (limit >= 1 /\ rateLog[k][i].at - rateLog[k][1].at < window) =>
        /\ i <= limit => rateLog[k][i].admitted
        /\ i = limit + 1 =>
             /\ ~rateLog[k][i].admitted
             /\ rateLog[k][i].outcome = "rate limit error"
             /\ rateLog[k][i].reset > 0
             /\ rateLog[k][i].reset <= window

C22_Witness ==
  \E k \in RateKeys :
    /\ limit = 2
    /\ window = 2
    /\ Len(rateLog[k]) = 3
    /\ rateLog[k][1].admitted
    /\ rateLog[k][2].admitted
    /\ ~rateLog[k][3].admitted
    /\ rateLog[k][3].at = 1
    /\ rateLog[k][3].reset = 1

\* ------------------------------------------------------------------------
\* Debounce: properties (checked under SpecDebounce, SpecDebounceLive)
\* ------------------------------------------------------------------------
CallsOf(k) == {i \in 1..Len(debounceCalls) : debounceCalls[i].key = k}

LastCallOf(k) == CHOOSE i \in CallsOf(k) : \A j \in CallsOf(k) : j <= i

\* the calls made on key k so far are one burst: each comes less than delay
\* after the one before it
IsBurst(k) ==
  /\ CallsOf(k) # {}
  /\ \A i, j \in CallsOf(k) :
       (i < j /\ ~\E m \in CallsOf(k) : i < m /\ m < j) =>
         debounceCalls[j].at - debounceCalls[i].at < debounceDelay

ExecutedOf(k) == {i \in CallsOf(k) : debounceCalls[i].timer = "fired"}

\* C23: while the calls on a key form one burst, the operation has run at
\* most once for them, only for the last call, with that call's arguments and
\* not before delay after it; once the timer of the burst is gone it has run
\* exactly once.
C23_BurstRunsOnce ==
  \A k \in TimerKeys :
    IsBurst(k) =>
      /\ Cardinality(ExecutedOf(k)) <= 1
      /\ \A i \in ExecutedOf(k) :
           /\ i = LastCallOf(k)
           /\ debounceCalls[i].execArg = debounceCalls[LastCallOf(k)].arg
           /\ debounceCalls[i].executedAt >= debounceCalls[LastCallOf(k)].at + debounceDelay
      /\ \A i \in CallsOf(k) : i # LastCallOf(k) => debounceCalls[i].timer = "cleared"
      /\ debounceCalls[LastCallOf(k)].timer # "armed" => ExecutedOf(k) = {LastCallOf(k)}

C23_Witness ==
  \E k \in TimerKeys :
    /\ IsBurst(k)
    /\ Cardinality(CallsOf(k)) = 2
    /\ debounceDelay = 2
    /\ ExecutedOf(k) = {2}
    /\ debounceCalls[1].arg = 1
    /\ debounceCalls[1].at = 0
    /\ debounceCalls[1].timer = "cleared"
    /\ debounceCalls[2].arg = 2
    /\ debounceCalls[2].at = 1
    /\ debounceCalls[2].execArg = 2
    /\ debounceCalls[2].executedAt = 3

\* C24: the promise returned by every debounced call eventually settles,
\* also the promise of a call that was superseded.
C24_EveryCallSettles ==
  \A i \in 1..MaxDebounceCalls :
    (Len(debounceCalls) >= i) ~>
      (Len(debounceCalls) >= i /\ debounceCalls[i].promise # "pending")

\* ------------------------------------------------------------------------
\* Throttle: properties (checked under SpecThrottle)
\* ------------------------------------------------------------------------
\* the last call before call j on the same key that executed the operation
\* (0 when there is none)
LastExecutedBefore(j) ==
  LET E == {i \in 1..(j - 1) : /\ throttleCalls[i].key = throttleCalls[j].key
                               /\ throttleCalls[i].executed}
  IN IF E = {} THEN 0 ELSE CHOOSE i \in E : \A m \in E : m <= i

\* C25: on each key two executions of the operation are at least interval
\* apart, and a call made at least interval after the last executed call
\* executes the operation.
C25_ThrottleGating ==
  \A j \in 1..Len(throttleCalls) :
    LET i == LastExecutedBefore(j)
    IN /\ (i # 0 /\ throttleCalls[j].executed) =>
            throttleCalls[j].at - throttleCalls[i].at >= interval
       /\ (i # 0 /\ throttleCalls[j].at - throttleCalls[i].at >= interval) =>
            throttleCalls[j].executed
       /\ i = 0 => throttleCalls[j].executed

\* C26: a call inside the interval does not execute the operation;
\* ThrottleSync returns undefined, ThrottleAsync returns the value recorded
\* by the last executed call, or a resolved empty promise when none is.
C26_ThrottledReturn ==
  \A j \in 1..Len(throttleCalls) :
    LET i == LastExecutedBefore(j)
    IN (i # 0 /\ throttleCalls[j].at - throttleCalls[i].at < interval) =>
         /\ ~throttleCalls[j].executed
         /\ throttleCalls[j].op = "none"
         /\ throttleVariant = "sync" => throttleCalls[j].ret = <<"undefined">>
         /\ throttleVariant = "async" =>
              throttleCalls[j].ret =
                (IF throttleCalls[i].kind = "void"
                   THEN <<"resolved", "undefined">>
                   ELSE <<"result of", i>>)

\* ------------------------------------------------------------------------
\* Call shape: properties (checked under SpecShape)
\* ------------------------------------------------------------------------
\* C27: every call of a wrapped method returns an immediate value when the
\* operation is synchronous and a pending value when it is asynchronous.
C27_ShapePreserved ==
  \A i \in 1..Len(shapeCalls) :
    shapeCalls[i].shape = opShape(shapeCalls[i].kind)

\* ------------------------------------------------------------------------
\* EffectError / EffectAfter: properties (checked under SpecEffect)
\* ------------------------------------------------------------------------
OpFailed(r) == r.op \in {"threw", "rejected"}

OpSucceeded(r) == r.op \in {"returned", "resolved"}

HookDone(r) == r.hook \in {"returned", "threw", "resolved", "rejected"}

\* C28: EffectError runs the hook exactly once for a failed call, with the
\* error, and never otherwise; once the hook and the promise it returned are
\* done the caller has the operation's error, and not before.
C28_ErrorHookKeepsError ==
  \A i \in 1..Len(effectCalls) :
    LET r == effectCalls[i]
    IN r.effect = "error" =>
         /\ OpFailed(r) => (r.hookRuns = 1 /\ r.hookGiven = <<"error">>)
         /\ ~OpFailed(r) => r.hookRuns = 0
         /\ (OpFailed(r) /\ HookDone(r)) => r.outcome = "error"
         /\ (OpFailed(r) /\ ~HookDone(r)) => r.outcome = "pending"
         /\ OpSucceeded(r) => r.outcome = "result"

\* C29: EffectAfter runs the hook exactly once for a successful call, with
\* the result, and never for a failed one; the caller has the operation's
\* result once the promise returned by the hook has settled, and not before.
C29_AfterHookKeepsResult ==
  \A i \in 1..Len(effectCalls) :
    LET r == effectCalls[i]
    IN r.effect = "after" =>
         /\ OpSucceeded(r) => (r.hookRuns = 1 /\ r.hookGiven = <<"result">>)
         /\ ~OpSucceeded(r) => r.hookRuns = 0
         /\ (OpSucceeded(r) /\ HookDone(r)) => r.outcome = "result"
         /\ (OpSucceeded(r) /\ ~HookDone(r)) => r.outcome = "pending"
         /\ OpFailed(r) => r.outcome = "error"

\* ------------------------------------------------------------------------
\* Retry: one attempt at a time (checked under SpecBackoff)
\* ------------------------------------------------------------------------
\* C30: within one call at most one attempt is in progress: every attempt
\* before the latest has failed, and attempt k+1 was started after the wait
\* that followed the failure of attempt k.
C30_AttemptsSequential ==
  LET r == retryCalls[1]
      n == Len(r.log)
  IN /\ Len(stamps) = n
     /\ Cardinality({k \in 1..n : r.log[k] = "pending"}) <= 1
     /\ \A k \in 1..(n - 1) :
          /\ r.log[k] = "err"
          /\ Len(r.delays) >= k
          /\ stamps[k + 1] >= stamps[k] + r.delays[k]
     /\ r.phase = "awaiting" <=> (n > 0 /\ r.log[n] = "pending")
     /\ r.phase = "waiting" => (r.log[n] = "err" /\ Len(r.delays) = n)

C30_Witness ==
  /\ retryCalls[1].log = <<"err", "err", "pending">>
  /\ retryCalls[1].phase = "awaiting"
  /\ Len(stamps) = 3
  /\ stamps[2] > stamps[1]
  /\ stamps[3] > stamps[2]

\* ------------------------------------------------------------------------
\* Retry: overlapping calls (checked under SpecRetry)
\* ------------------------------------------------------------------------
\* C31: the attempt counter of a call counts that call's own attempts only:
\* whatever another call has done, a call whose attempts all fail makes
\* maxRetries + 1 of them before it gives up.
C31_CounterPerCall ==
  \A c, d \in RetryIds :
    (c # d /\ retryCalls[d].attempts > 0) =>
      LET r == retryCalls[c]
      IN /\ r.attempts = Len(r.log)
         /\ (r.phase = "done" /\ r.outcome = "error") =>
              Len(r.log) = maxRetries + 1
         /\ r.phase = "waiting" => Len(r.log) < maxRetries + 1

C31_Witness ==
  /\ maxRetries = 2
  /\ retryCalls[1].phase = "done"
  /\ retryCalls[1].outcome = "error"
  /\ Len(retryCalls[1].log) = 3
  /\ retryCalls[2].phase = "done"
  /\ retryCalls[2].outcome = "error"
  /\ Len(retryCalls[2].log) = 3
  /\ retryCalls[1].due > retryCalls[2].due - retryCalls[2].delays[2]
  /\ retryCalls[2].due > retryCalls[1].due - retryCalls[1].delays[2]
\* ---------------------------------------------------------------------
\* CircuitBreaker: counters and transitions (checked under Spec)
\* ---------------------------------------------------------------------

\* the handler that ran last saw an admitted operation succeed
SuccessEvent ==
  \/ last.op = "resolve"
  \/ /\ last.op = "call"
     /\ cbCalls[last.id].admitted
     /\ cbCalls[last.id].kind = "return"

\* C32: a success that arrives while the breaker is Closed leaves failures
\* (and the state) as they were, so failures add up across the successes in
\* between and the failure that brings the count to failureThreshold opens
\* the breaker; failures goes down only in a success that finds the breaker
\* Half-Open, and then to 0.
C32_FailuresAccumulate ==
  /\ (SuccessEvent /\ last.mid = "closed") =>
       (failures = last.pre.failures /\ state = "closed")
  /\ (FailureEvent /\ last.mid = "closed") =>
       /\ failures = last.pre.failures + 1
       /\ failures >= failureThreshold => state = "open"
  /\ (last.op # "tick" /\ failures < last.pre.failures) =>
       (SuccessEvent /\ last.mid = "half-open" /\ failures = 0)

C32_Witness ==
  /\ failureThreshold = 2
  /\ Len(cbCalls) = 3
  /\ cbCalls[1].kind = "throw"
  /\ cbCalls[2].kind = "return"
  /\ cbCalls[3].kind = "throw"
  /\ last.op = "call"
  /\ last.id = 3
  /\ last.pre.failures = 1
  /\ last.pre.state = "closed"
  /\ failures = 2
  /\ state = "open"

\* ---------------------------------------------------------------------
\* RateLimited: the window and the stored log (checked under SpecRate)
\* ---------------------------------------------------------------------

\* the timestamps of ts that are not strictly older than start
RECURSIVE notOlder(_, _)
notOlder(ts, start) ==
  IF ts = <<>> THEN <<>>
  ELSE IF Head(ts) >= start
    THEN <<Head(ts)>> \o notOlder(Tail(ts), start)
    ELSE notOlder(Tail(ts), start)

\* C33: a call prunes exactly the recorded timestamps strictly older than
\* now - window: a timestamp equal to now - window still counts toward
\* limit, so the call is rejected when limit timestamps of the stored list
\* are at or after now - window, and an admitted call stores the timestamps
\* at or after now - window followed by its own.
C33_BoundaryCounts ==
  \A k \in RateKeys :
    \A i \in 1..Len(rateLog[k]) :
      LET e == rateLog[k][i]
          kept == notOlder(e.pre, e.at - window)
      IN /\ e.admitted <=> Len(kept) < limit
         /\ (i = Len(rateLog[k]) /\ e.admitted) =>
              rateLimitState[k] = Append(kept, e.at)

\* ---------------------------------------------------------------------
\* Throttle: suppressed calls (checked under SpecThrottle)
\* ---------------------------------------------------------------------

\* the last call on key k that set lastCallMap / lastResultMap, 0 when none
LastRecorded(k, rec(_)) ==
  LET E == {i \in 1..Len(throttleCalls) : /\ throttleCalls[i].key = k
                                          /\ rec(throttleCalls[i])}
  IN IF E = {} THEN 0 ELSE CHOOSE i \in E : \A m \in E : m <= i

RecordsTime(c) == c.executed /\ recordsCall(throttleVariant, c.kind)

RecordsResult(c) ==
  c.executed /\ throttleVariant = "async" /\ c.kind # "throw"

\* C34: a suppressed call changes neither lastCallMap nor lastResultMap of
\* its key: both hold what the last executed call that recorded left there,
\* whatever calls were suppressed since, so a call made at least interval
\* after the last executed call executes the operation.
C34_SuppressedCallsLeaveNoTrace ==
  /\ \A k \in ThrottleKeys :
       LET i == LastRecorded(k, RecordsTime)
           j == LastRecorded(k, RecordsResult)
       IN /\ lastCallMap[k] =
               (IF i = 0 THEN NoCall ELSE DateNow(throttleCalls[i].at))
          /\ lastResultMap[k] = (IF j = 0 THEN NoCall ELSE j)
  /\ \A j \in 1..Len(throttleCalls) :
       LET i == LastExecutedBefore(j)
       IN (i # 0 /\ throttleCalls[j].at - throttleCalls[i].at >= interval) =>
            throttleCalls[j].executed

\* an execution, two suppressed calls at different times, and the map still
\* holds the time of the execution
C34_Witness ==
  /\ interval = 2
  /\ Len(throttleCalls) = 3
  /\ throttleCalls[1].key = "X" /\ throttleCalls[1].executed
  /\ throttleCalls[2].key = "X" /\ ~throttleCalls[2].executed
  /\ throttleCalls[3].key = "X" /\ ~throttleCalls[3].executed
  /\ throttleCalls[2].at > throttleCalls[1].at
  /\ lastCallMap["X"] = DateNow(throttleCalls[1].at)
  /\ now = throttleCalls[1].at + interval

\* ---------------------------------------------------------------------
\* CircuitBreaker: invariants of state and counter (checked under Spec)
\* ---------------------------------------------------------------------

\* C35: in every reachable state, under any interleaving of overlapping
\* calls, a Closed breaker has failures < failureThreshold and an Open or
\* Half-Open breaker has failures >= failureThreshold.
C35_StateMatchesCount ==
  /\ state = "closed" => failures < failureThreshold
  /\ state \in {"open", "half-open"} => failures >= failureThreshold

\* a failure that arrives while Open (a call admitted before the breaker
\* opened) has pushed the count beyond the threshold, and the breaker has
\* since been closed by a trial
C35_Witness ==
  /\ state = "closed"
  /\ failures = 0
  /\ last.op = "resolve"
  /\ last.pre.state = "half-open"
  /\ last.pre.failures > failureThreshold
  /\ Len(trajectory) = 3

\* the changes of state the breaker may make
Edges == {<<"closed", "open">>, <<"open", "half-open">>,
          <<"half-open", "closed">>, <<"half-open", "open">>}

\* every step of the sequence seq, entered from Closed, is one of Edges
FollowsEdges(seq) ==
  \A n \in 1..Len(seq) :
    <<(IF n = 1 THEN "closed" ELSE seq[n - 1]), seq[n]>> \in Edges

\* C36: the state changes only along Closed->Open, Open->Half-Open,
\* Half-Open->Closed and Half-Open->Open, under any interleaving of
\* overlapping calls, and the sequence of onStateChange arguments follows
\* the same edges.
C36_OnlyLegalEdges ==
  /\ FollowsEdges(trajectory)
  /\ FollowsEdges(notified)
  /\ state = (IF trajectory = <<>> THEN "closed"
              ELSE trajectory[Len(trajectory)])

C36_Witness ==
  /\ trajectory = <<"open", "half-open", "open", "half-open", "closed">>
  /\ notified = trajectory
  /\ \E i \in 1..Len(cbCalls) : cbCalls[i].kind = "async"

\* the call that ran last was rejected by the gate
GateRejection ==
  /\ last.op = "call"
  /\ cbCalls[last.id].error = CircuitOpenError

\* C37: a call rejected with 'Circuit breaker is open' leaves failures,
\* state and lastFailureTime (and the notifications) as they were, so the
\* call that comes resetTimeout after the last failure is admitted however
\* many calls were rejected before it.
C37_RejectionLeavesBreaker ==
  /\ GateRejection =>
       /\ state = "open"
       /\ last.pre.state = "open"
       /\ failures = last.pre.failures
       /\ lastFailureTime = last.pre.lastFailureTime
       /\ Len(notified) = last.pre.nlen
       /\ invocations = last.pre.invocations
  /\ OpenCallAfterTimeout => cbCalls[last.id].admitted

\* a trial admitted right after two rejected calls made at different times
C37_Witness ==
  /\ Len(cbCalls) = 4
  /\ cbCalls[2].error = CircuitOpenError
  /\ cbCalls[3].error = CircuitOpenError
  /\ cbCalls[4].trial
  /\ last.op = "call"
  /\ last.id = 4
  /\ resetTimeout = 2
  /\ now = last.pre.lastFailureTime + resetTimeout

\* the calls on key k that invoked the operation with a timestamp in
\* (t - window, t]
AdmittedIn(k, t) ==
  {i \in 1..Len(rateLog[k]) : /\ rateLog[k][i].admitted
                              /\ rateLog[k][i].at > t - window
                              /\ rateLog[k][i].at <= t}

\* C38: for every key the stored list holds at most limit timestamps, and
\* for every time t at most limit calls were admitted with a timestamp in
\* (t - window, t].
C38_AtMostLimitPerWindow ==
  \A k \in RateKeys :
    /\ Len(rateLimitState[k]) <= limit
    /\ \A t \in 0..(now + window) : Cardinality(AdmittedIn(k, t)) <= limit

\* a full window behind and a new one open: three admissions in all
C38_Witness ==
  \E k \in RateKeys :
    /\ limit = 2
    /\ window = 2
    /\ Len(rateLog[k]) = 3
    /\ \A i \in 1..3 : rateLog[k][i].admitted
    /\ Cardinality(AdmittedIn(k, 1)) = 2
    /\ Len(rateLimitState[k]) = 1

\* the moment at which the rejection e says the limit resets (Infinity
\* when the list is empty, as with limit = 0)
ResetMoment(e) == IF e.reset = Infinity THEN Infinity ELSE e.at + e.reset

\* C39: a rejected call records no timestamp and leaves the stored list of
\* its key as it was, so a further rejected call reports the same moment of
\* reset (the time left shrinks by the time gone by); an admitted call
\* stores its timestamp before the operation runs, also when the operation
\* then throws or returns a promise that may reject.
C39_RejectedCallsRecordNothing ==
  \A k \in RateKeys :
    \A i \in 1..Len(rateLog[k]) :
      LET e == rateLog[k][i]
          after == IF i < Len(rateLog[k]) THEN rateLog[k][i + 1].pre
                   ELSE rateLimitState[k]
      IN /\ ~e.admitted =>
              /\ after = e.pre
              /\ e.outcome = "rate limit error"
              /\ (i > 1 /\ ~rateLog[k][i - 1].admitted) =>
                   ResetMoment(e) = ResetMoment(rateLog[k][i - 1])
         /\ e.admitted =>
              /\ after # <<>>
              /\ after[Len(after)] = e.at
              /\ Len(after) <= limit
              /\ e.outcome = (IF e.kind = "return" THEN "value"
                              ELSE IF e.kind = "throw" THEN "thrown"
                              ELSE "promise")

\* an admitted call whose operation throws takes the only slot: the next
\* two calls, at different times, are rejected with the same moment of reset
C39_Witness ==
  \E k \in RateKeys :
    /\ limit = 1
    /\ window = 2
    /\ Len(rateLog[k]) = 3
    /\ rateLog[k][1].admitted
    /\ rateLog[k][1].kind = "throw"
    /\ ~rateLog[k][2].admitted
    /\ ~rateLog[k][3].admitted
    /\ rateLog[k][3].at > rateLog[k][2].at
    /\ rateLimitState[k] = <<rateLog[k][1].at>>

\* ---------------------------------------------------------------------
\* Cached: invalidate while an invocation is pending (checked under
\* SpecCache)
\* ---------------------------------------------------------------------

\* C40: a value that resolves after an invalidate called while its
\* invocation was pending is not stored: when the promise resolves and the
\* key is no longer among the keys of the method (an invalidate has cleared
\* them since the call), no entry is written, and every entry in the cache
\* is under a key that the next invalidate of its method deletes.
C40_InvalidateBeatsPending ==
  /\ (cacheLast.ev = "resolve" /\ LastKey \notin methodCacheKeys[cacheLast.op])
       => ~cache[LastKey].present
  /\ \A k \in Keys : cache[k].present => k \in methodCacheKeys[k[1]]

====
